---- MODULE Spec2Model ----
(***************************************************************************)
(* Model of the scripture-analysis pipeline:                               *)
(*   - src/src/teams/analysis.py  (independent review with critic loop)    *)
(*   - src/chat2.py               (conversation with CriticApproval)       *)
(*   - src/src/teams/debate.py    (debate batch over verse groups)         *)
(*   - src/src/report/coalesce.py (tolerant JSON decoder, consensus score) *)
(*   - src/src/main.py            (translation dict, initial analysis)     *)
(*                                                                         *)
(* JSON texts are sequences of tokens.  A token is a string: a             *)
(* punctuation mark, a space, a literal, a digit, a word, or a quote mark  *)
(* "q0" (an unescaped quote), "q1" (a quote escaped once, \"), "q2" (a     *)
(* quote escaped twice, \\\"), "q3".  The token "NWT" stands for the text  *)
(* "Now we transition".                                                    *)
(***************************************************************************)
EXTENDS Integers, Sequences, FiniteSets, TLC

VARIABLES
    \* ---- perform_analysis_and_review (analysis.py) ----
    rv_pc,                \* position in perform_analysis_and_review
    rv_history,           \* the messages of the RoundRobinGroupChat `chat`
    rv_next,              \* index of the next speaker of `chat`
    critique_for_review,  \* local variable critique_for_review
    review_round,         \* local variable review_round
    rv_pending,           \* reasoning of the critic review that rejected
    rv_ret,               \* the value returned
    rv_calls,             \* the speakers of the model calls issued, in order
    rv_error,             \* the exception that left the function
    \* ---- groupchat.run of run_analysis (chat2.py) ----
    c2_pc,                \* position in the run
    c2_messages,          \* messages of the conversation
    c2_next,              \* index of the next speaker
    c2_count,             \* MaxMessageTermination._message_count
    c2_terminated,        \* CriticApproval._terminated
    \* ---- process_interleaved_dataframe (debate.py) ----
    db_pc,                \* position in process_interleaved_dataframe
    db_groups,            \* the groups of df.groupby: number of rows of each
    db_idx,               \* index of the group the loop is at
    db_turns,             \* model calls answered in the debate in progress
    final_results,        \* list final_results: the group of each row
    db_skipped,           \* groups reported as skipped
    db_debated,           \* groups a debate was started for
    db_failed,            \* groups whose debate raised a gateway error
    db_phase,             \* phase of the run_single_verse_debate in progress
    db_thread,            \* messages of debate_team: who spoke, in which run
    db_next,              \* index of the next speaker of debate_team
    db_count,             \* termination._message_count
    db_max,               \* termination._max_messages
    db_context,           \* per agent: the groups whose messages it holds
    db_pending,           \* the model calls issued and not yet answered
    row_data,             \* row_data of the last run_single_verse_debate
    db_error,             \* the exception that left the function
    \* ---- safe_json_parse / coalesce_csvs (coalesce.py) ----
    cz_pc,                \* position in the processing of a debate row
    cz_objs,              \* the closing-statement objects of the row
    cz_style,             \* how the column was encoded: direct or double
    cz_column,            \* the closing_statements column (a JSON text)
    cz_data,              \* closing_statements_data
    cz_twin,              \* safe_json_parse of the same objects encoded the other way
    closing_scores,       \* list closing_scores
    formatted_closing,    \* list formatted_closing
    final_score,          \* final_score of the debate entry
    \* ---- safe_json_parse on any column value (coalesce.py) ----
    sp_pc,                \* position in the processing of the column
    sp_name,              \* the column: "closing_statements" or "debate"
    sp_elems,             \* the elements of the array the column encodes
    sp_column,            \* the value of the column in the row
    sp_parsed,            \* what safe_json_parse returned
    sp_error,             \* the exception that was raised
    sp_closing,           \* list formatted_closing
    transcript,           \* list transcript
    \* ---- coalesce_csvs (coalesce.py) ----
    rp_pc,                \* position in coalesce_csvs
    rp_run,               \* which invocation on the same input files this is
    df_individual,        \* the rows of the individual table
    df_debate,            \* the rows of the debate table
    all_verses,           \* list all_verses
    rp_idx,               \* index in all_verses of the verse the loop is at
    analysis_list,        \* list analysis_list
    rp_error,             \* the exception that left the function
    rp_output,            \* the text of the file at output_path
    rp_first,             \* the text the first invocation left at output_path
    mn_pc,                \* position in main.py
    df,                   \* the ground-truth rows: the verse of each
    verses,               \* the references the corpus has a text for
    NON_ENGLISH_TRANSLATION_DICT,   \* the (chapter, verse) keys of the dict
    mn_row,               \* index of the row of the loop in progress
    mn_linguist,          \* index of the linguist of the inner loop
    mn_results,           \* the list `results`
    mn_error              \* the exception that ended the program

rv_vars == <<rv_pc, rv_history, rv_next, critique_for_review, review_round,
             rv_pending, rv_ret, rv_calls, rv_error>>
c2_vars == <<c2_pc, c2_messages, c2_next, c2_count, c2_terminated>>
db_vars == <<db_pc, db_groups, db_idx, db_turns, final_results, db_skipped,
             db_debated, db_failed, db_error, db_phase, db_thread, db_next,
             db_count, db_max, db_context, db_pending, row_data>>
cz_vars == <<cz_pc, cz_objs, cz_style, cz_column, cz_data, cz_twin, closing_scores,
             formatted_closing, final_score>>
sp_vars == <<sp_pc, sp_name, sp_elems, sp_column, sp_parsed, sp_error, sp_closing,
             transcript>>
rp_vars == <<rp_pc, rp_run, df_individual, df_debate, all_verses, rp_idx,
             analysis_list, rp_error, rp_output, rp_first>>
mn_vars == <<mn_pc, df, verses, NON_ENGLISH_TRANSLATION_DICT, mn_row, mn_linguist,
             mn_results, mn_error>>
vars == <<rv_vars, c2_vars, db_vars, cz_vars, sp_vars, rp_vars, mn_vars>>

(***************************************************************************)
(* JSON: Python values, json.dumps, json.loads                             *)
(***************************************************************************)

\* Python values as uniform records: t is the type.
JNull == [t |-> "null", b |-> FALSE, n |-> 0, s |-> <<>>, items |-> <<>>, pairs |-> <<>>]
JBool(b) == [t |-> "bool", b |-> b, n |-> 0, s |-> <<>>, items |-> <<>>, pairs |-> <<>>]
JInt(n) == [t |-> "int", b |-> FALSE, n |-> n, s |-> <<>>, items |-> <<>>, pairs |-> <<>>]
JStr(s) == [t |-> "str", b |-> FALSE, n |-> 0, s |-> s, items |-> <<>>, pairs |-> <<>>]
JList(items) == [t |-> "list", b |-> FALSE, n |-> 0, s |-> <<>>, items |-> items, pairs |-> <<>>]
\* a dict is its items in insertion order: pairs of [k |-> key text, v |-> value]
JDict(pairs) == [t |-> "dict", b |-> FALSE, n |-> 0, s |-> <<>>, items |-> <<>>, pairs |-> pairs]
\* float("nan"): what pandas.read_csv gives for an empty cell
JNaN == [t |-> "float", b |-> FALSE, n |-> 0, s |-> <<>>, items |-> <<>>, pairs |-> <<>>]

\* The value of the one element of a set {e(x) : x \in {v}}: v is evaluated
\* once and e is given its value.
Value(S) == CHOOSE x \in S : TRUE

Digits == <<"0", "1", "2", "3", "4", "5", "6", "7", "8", "9">>
IsDigit(tok) == \E i \in 1..Len(Digits) : Digits[i] = tok
DigitValue(tok) == (CHOOSE i \in 1..Len(Digits) : Digits[i] = tok) - 1
DigitToken(n) == Digits[n + 1]

\* One more level of escaping of a quote mark, and one less.
EscapeToken(tok) ==
    CASE tok = "q0" -> "q1"
      [] tok = "q1" -> "q2"
      [] tok = "q2" -> "q3"
      [] OTHER -> tok
UnescapeToken(tok) ==
    CASE tok = "q1" -> "q0"
      [] tok = "q2" -> "q1"
      [] tok = "q3" -> "q2"
      [] OTHER -> tok
Escape(s) == Value({[i \in 1..Len(text) |-> EscapeToken(text[i])] : text \in {s}})
Unescape(s) == Value({[i \in 1..Len(text) |-> UnescapeToken(text[i])] : text \in {s}})

\* json.dumps with the default separators ", " and ": ".
RECURSIVE Dumps(_), DumpsItems(_), DumpsPairs(_)
Dumps(v) ==
    CASE v.t = "null" -> <<"null">>
      [] v.t = "float" -> <<"NaN">>
      [] v.t = "bool" -> IF v.b THEN <<"true">> ELSE <<"false">>
      [] v.t = "int" -> <<DigitToken(v.n)>>
      [] v.t = "str" -> <<"q0">> \o Escape(v.s) \o <<"q0">>
      [] v.t = "list" -> <<"[">> \o DumpsItems(v.items) \o <<"]">>
      [] v.t = "dict" -> <<"{">> \o DumpsPairs(v.pairs) \o <<"}">>
DumpsItems(items) ==
    IF items = <<>> THEN <<>>
    ELSE IF Len(items) = 1 THEN Dumps(items[1])
    ELSE Dumps(items[1]) \o <<",", " ">> \o DumpsItems(Tail(items))
DumpsPairs(pairs) ==
    IF pairs = <<>> THEN <<>>
    ELSE LET one == <<"q0">> \o Escape(pairs[1].k) \o <<"q0", ":", " ">> \o Dumps(pairs[1].v)
         IN IF Len(pairs) = 1 THEN one
            ELSE one \o <<",", " ">> \o DumpsPairs(Tail(pairs))

\* json.loads: the result of a parse is [ok, v, i]: ok is FALSE for a
\* JSONDecodeError, v is the value, i the index after it.
ParseFail == [ok |-> FALSE, v |-> JNull, i |-> 0]
ParseOk(v, i) == [ok |-> TRUE, v |-> v, i |-> i]

RECURSIVE SkipWs(_, _)
SkipWs(toks, i) ==
    IF i <= Len(toks) /\ toks[i] = " " THEN SkipWs(toks, i + 1) ELSE i

\* the closing quote of the string literal that opens at index i
RECURSIVE ClosingQuote(_, _)
ClosingQuote(toks, j) ==
    IF j > Len(toks) THEN 0
    ELSE IF toks[j] = "q0" THEN j
    ELSE ClosingQuote(toks, j + 1)

ParseString(toks, i) ==
    LET j == ClosingQuote(toks, i + 1)
    IN IF j = 0 THEN ParseFail
       ELSE ParseOk(JStr(Unescape(SubSeq(toks, i + 1, j - 1))), j + 1)

\* dict assignment: a repeated key keeps its place and takes the new value
SetPair(pairs, k, v) ==
    IF \E i \in 1..Len(pairs) : pairs[i].k = k
    THEN [i \in 1..Len(pairs) |-> IF pairs[i].k = k THEN [k |-> k, v |-> v] ELSE pairs[i]]
    ELSE Append(pairs, [k |-> k, v |-> v])

RECURSIVE ParseValue(_, _), ParseItems(_, _, _), ParsePairs(_, _, _)
ParseValue(toks, i0) ==
    LET i == SkipWs(toks, i0)
    IN IF i > Len(toks) THEN ParseFail
       ELSE CASE toks[i] = "null" -> ParseOk(JNull, i + 1)
              [] toks[i] = "NaN" -> ParseOk(JNaN, i + 1)
              [] toks[i] = "true" -> ParseOk(JBool(TRUE), i + 1)
              [] toks[i] = "false" -> ParseOk(JBool(FALSE), i + 1)
              [] IsDigit(toks[i]) -> ParseOk(JInt(DigitValue(toks[i])), i + 1)
              [] toks[i] = "q0" -> ParseString(toks, i)
              [] toks[i] = "[" ->
                    LET j == SkipWs(toks, i + 1)
                    IN IF j <= Len(toks) /\ toks[j] = "]"
                       THEN ParseOk(JList(<<>>), j + 1)
                       ELSE ParseItems(toks, j, <<>>)
              [] toks[i] = "{" ->
                    LET j == SkipWs(toks, i + 1)
                    IN IF j <= Len(toks) /\ toks[j] = "}"
                       THEN ParseOk(JDict(<<>>), j + 1)
                       ELSE ParsePairs(toks, j, <<>>)
              [] OTHER -> ParseFail
ParseItems(toks, i, acc) ==
    Value({ IF ~r.ok THEN ParseFail
            ELSE LET j == SkipWs(toks, r.i)
                 IN IF j > Len(toks) THEN ParseFail
                    ELSE IF toks[j] = "," THEN ParseItems(toks, j + 1, Append(acc, r.v))
                    ELSE IF toks[j] = "]" THEN ParseOk(JList(Append(acc, r.v)), j + 1)
                    ELSE ParseFail
            : r \in {ParseValue(toks, i)} })
ParsePairs(toks, i0, acc) ==
    LET i == SkipWs(toks, i0)
    IN IF i > Len(toks) \/ toks[i] # "q0" THEN ParseFail
       ELSE Value({
            IF ~key.ok THEN ParseFail
            ELSE LET c == SkipWs(toks, key.i)
                 IN IF c > Len(toks) \/ toks[c] # ":" THEN ParseFail
                    ELSE Value({
                         IF ~r.ok THEN ParseFail
                         ELSE LET j == SkipWs(toks, r.i)
                              IN IF j > Len(toks) THEN ParseFail
                                 ELSE IF toks[j] = ","
                                      THEN ParsePairs(toks, j + 1, SetPair(acc, key.v.s, r.v))
                                 ELSE IF toks[j] = "}"
                                      THEN ParseOk(JDict(SetPair(acc, key.v.s, r.v)), j + 1)
                                 ELSE ParseFail
                         : r \in {ParseValue(toks, c + 1)} })
            : key \in {ParseString(toks, i)} })

\* json.loads(text): [ok, v]; trailing text other than whitespace is an error
Loads(toks) ==
    Value({ Value({ IF r.ok /\ SkipWs(text, r.i) > Len(text) THEN [ok |-> TRUE, v |-> r.v]
                    ELSE [ok |-> FALSE, v |-> JNull]
                    : r \in {ParseValue(text, 1)} })
            : text \in {toks} })

\* key in d, d[key], d.get(key, default)
HasKey(d, k) == \E i \in 1..Len(d.pairs) : d.pairs[i].k = k
GetKey(d, k, default) ==
    IF HasKey(d, k) THEN d.pairs[CHOOSE i \in 1..Len(d.pairs) : d.pairs[i].k = k].v
    ELSE default
KeySet(d) == {d.pairs[i].k : i \in 1..Len(d.pairs)}

\* str.strip() of a text
RECURSIVE Strip(_)
Strip(s) ==
    IF s = <<>> THEN s
    ELSE IF Head(s) = " " THEN Strip(Tail(s))
    ELSE IF s[Len(s)] = " " THEN Strip(SubSeq(s, 1, Len(s) - 1))
    ELSE s

(***************************************************************************)
(* The parts that are not running: each specification runs one part of the *)
(* pipeline and leaves the variables of the others at these values.        *)
(***************************************************************************)
RvIdle ==
    /\ rv_pc = "idle" /\ rv_history = <<>> /\ rv_next = 0
    /\ critique_for_review = <<>> /\ review_round = 0
    /\ rv_pending = <<>> /\ rv_ret = <<>>
    /\ rv_calls = <<>> /\ rv_error = "none"
C2Idle ==
    /\ c2_pc = "idle" /\ c2_messages = <<>> /\ c2_next = 0
    /\ c2_count = 0 /\ c2_terminated = FALSE
DbIdle ==
    /\ db_pc = "idle" /\ db_groups = <<>> /\ db_idx = 0 /\ db_turns = 0
    /\ final_results = <<>> /\ db_skipped = {} /\ db_debated = {}
    /\ db_failed = {} /\ db_error = "none"
    /\ db_phase = "none" /\ db_thread = <<>> /\ db_next = 0
    /\ db_count = 0 /\ db_max = 0 /\ db_context = <<>>
    /\ db_pending = {} /\ row_data = <<>>
CzIdle ==
    /\ cz_pc = "idle" /\ cz_objs = <<>> /\ cz_style = "none" /\ cz_column = JNull
    /\ cz_data = JNull /\ cz_twin = [done |-> FALSE, v |-> JNull]
    /\ closing_scores = <<>> /\ formatted_closing = <<>>
    /\ final_score = 0
MnIdle ==
    /\ mn_pc = "idle" /\ df = <<>> /\ verses = {}
    /\ NON_ENGLISH_TRANSLATION_DICT = {} /\ mn_row = 0 /\ mn_linguist = 0
    /\ mn_results = <<>> /\ mn_error = "none"
SpIdle ==
    /\ sp_pc = "idle" /\ sp_name = "none" /\ sp_elems = <<>>
    /\ sp_column = JNull /\ sp_parsed = JNull /\ sp_error = "none"
    /\ sp_closing = <<>> /\ transcript = <<>>
RpIdle ==
    /\ rp_pc = "idle" /\ rp_run = 0 /\ df_individual = <<>> /\ df_debate = <<>>
    /\ all_verses = <<>> /\ rp_idx = 0 /\ analysis_list = <<>>
    /\ rp_error = "none" /\ rp_output = <<>> /\ rp_first = <<>>

(***************************************************************************)
(* Messages and the round-robin conversation                               *)
(***************************************************************************)
Message(source, content) == [source |-> source, content |-> content]

\* RoundRobinGroupChat.run(task=...) with max_turns=1: the task is published
\* as a user message, the next participant in order answers it, and the
\* turn passes on.  The result's messages are these two messages.
RunOneTurn(history, participants, next, task, reply) ==
    history \o <<Message("user", task), Message(participants[next + 1], reply)>>
NextSpeaker(participants, next) == (next + 1) % Len(participants)

IndicesOf(history, source) == {i \in 1..Len(history) : history[i].source = source}
CountOf(history, source) == Cardinality(IndicesOf(history, source))

(***************************************************************************)
(* agents/critic.py, teams/analysis.py                                     *)
(***************************************************************************)
linguist_name == "GEMINI_LINGUIST"
critic_name == "LINGUISTIC_CRITIC"
\* Faulty variant: the critic is the first participant.
review_participants_CriticFirst == <<critic_name, linguist_name>>
\* lines 32-35: participants=[linguist_agent, critic_agent]
review_participants == <<linguist_name, critic_name>>

\* CriticReview(**data): the pydantic model with the required fields
\* accepted: bool and reasoning: str.  A pydantic model ignores the keys it
\* does not declare.  A bool field takes a bool, or the integers 0 and 1.
\* The result is None (ok = FALSE) when the validation raises.
None == [ok |-> FALSE, accepted |-> FALSE, reasoning |-> <<>>]
IsBoolLike(v) == v.t = "bool" \/ (v.t = "int" /\ v.n \in {0, 1})
BoolOf(v) == IF v.t = "bool" THEN v.b ELSE v.n = 1
CriticReview(data) ==
    IF /\ data.t = "dict"
       /\ HasKey(data, <<"accepted">>)
       /\ IsBoolLike(GetKey(data, <<"accepted">>, JNull))
       /\ HasKey(data, <<"reasoning">>)
       /\ GetKey(data, <<"reasoning">>, JNull).t = "str"
    THEN [ok |-> TRUE,
          accepted |-> BoolOf(GetKey(data, <<"accepted">>, JNull)),
          reasoning |-> GetKey(data, <<"reasoning">>, JNull).s]
    ELSE None

\* parse_critic_output: json.loads of the stripped text, then CriticReview;
\* any exception gives None.
parse_critic_output(json_str) ==
    LET data == Loads(Strip(json_str))
    IN IF data.ok THEN CriticReview(data.v) ELSE None

\* Faulty variant: one more review round.
max_review_rounds_four == 3 + 1
max_review_rounds == 3

\* The replies a critic may give to one review instruction.
Field(k, v) == [k |-> <<k>>, v |-> v]
CriticObjects ==
    { JDict(<<Field("accepted", JBool(a)), Field("reasoning", JStr(<<"why">>))>>) : a \in BOOLEAN }
    \cup { JDict(<<Field("accepted", JBool(a)), Field("reasoning", JStr(<<"why">>)),
                   Field("extra", JInt(1))>>) : a \in BOOLEAN }
    \cup { JDict(<<Field("accepted", JBool(FALSE))>>),
           JDict(<<Field("reasoning", JStr(<<"why">>))>>),
           JList(<<JBool(TRUE)>>) }
CriticReplies ==
    { Dumps(o) : o \in CriticObjects } \cup { <<"I", " ", "accept">> }

\* The replies of a linguist: its k-th analysis, as the JSON of a
\* LinguistReview or as plain text.
LinguistScores == {3, 7}
LinguistReplies(k) ==
    { Dumps(JDict(<<Field("score", JInt(n)),
                    Field("reasoning", JStr(<<"analysis", DigitToken(k)>>))>>)) : n \in LinguistScores }
    \cup { <<"analysis", DigitToken(k)>> }

\* What the participant whose turn it is may answer.
ReviewReplies(history, next) ==
    IF review_participants[next + 1] = linguist_name
    THEN LinguistReplies(CountOf(history, linguist_name))
    ELSE CriticReplies

analysis_prompt == <<"ROLE", "TASK">>
critic_instruction(critique) == <<critic_name, "Review", "schema", "Analysis">> \o critique
revision_prompt(reasoning) == <<linguist_name, "rejected", "because">> \o reasoning \o <<"revise">>

\* Faulty variants of the branch: a parse failure taken for a rejection; an
\* acceptance that does not return.
ReviewOutcome_ParseFailureRevises(critic_review) ==
    IF critic_review.ok /\ critic_review.accepted THEN "return" ELSE "revise"
ReviewOutcome_AcceptanceRevises(critic_review) ==
    IF ~critic_review.ok THEN "return" ELSE "revise"

\* The branch taken on the parsed review (lines 64-73).
ReviewOutcome(critic_review) ==
    IF ~critic_review.ok THEN "return"
    ELSE IF critic_review.accepted THEN "return"
    ELSE "revise"

\* Faulty variant: the first message of the run, its task, is taken.
ResultCritique_TaskMessage(messages) == messages[1].content
\* lines 43, 83: result.messages[-1].content, where the messages of a run
\* are its task message and the reply
ResultCritique(messages) == messages[Len(messages)].content
RunResult(participants, next, task, reply) ==
    <<Message("user", task), Message(participants[next + 1], reply)>>

RvStart ==
    /\ rv_pc = "start" /\ rv_history = <<>> /\ rv_next = 0
    /\ critique_for_review = <<>> /\ review_round = 0
    /\ rv_pending = <<>> /\ rv_ret = <<>>
    /\ rv_calls = <<>> /\ rv_error = "none"

\* Step 1 (lines 41-43): the analysis prompt is run, the reply is the critique.
RvAnalyze ==
    /\ rv_pc = "start"
    /\ \E reply \in ReviewReplies(rv_history, rv_next) :
          /\ rv_history' = RunOneTurn(rv_history, review_participants, rv_next,
                                      analysis_prompt, reply)
          /\ critique_for_review' =
                ResultCritique(RunResult(review_participants, rv_next,
                                         analysis_prompt, reply))
    /\ rv_next' = NextSpeaker(review_participants, rv_next)
    /\ review_round' = 0
    /\ rv_pc' = "loop"
    /\ rv_calls' = Append(rv_calls, review_participants[rv_next + 1])
    /\ UNCHANGED <<rv_pending, rv_ret, rv_error>>

\* One pass of the loop up to the branch (lines 50-73).
RvReview ==
    /\ rv_pc = "loop"
    /\ review_round < max_review_rounds
    /\ \E reply \in ReviewReplies(rv_history, rv_next) :
          LET critic_review == parse_critic_output(reply)
          IN /\ rv_history' = RunOneTurn(rv_history, review_participants, rv_next,
                                         critic_instruction(critique_for_review), reply)
             /\ IF ReviewOutcome(critic_review) = "return"
                THEN /\ rv_pc' = "returned"
                     /\ rv_ret' = critique_for_review
                     /\ UNCHANGED rv_pending
                ELSE /\ rv_pc' = "revise"
                     /\ rv_pending' = critic_review.reasoning
                     /\ UNCHANGED rv_ret
    /\ rv_next' = NextSpeaker(review_participants, rv_next)
    /\ rv_calls' = Append(rv_calls, review_participants[rv_next + 1])
    /\ UNCHANGED <<critique_for_review, review_round, rv_error>>

\* The revision (lines 75-84).
RvRevise ==
    /\ rv_pc = "revise"
    /\ \E reply \in ReviewReplies(rv_history, rv_next) :
          /\ rv_history' = RunOneTurn(rv_history, review_participants, rv_next,
                                      revision_prompt(rv_pending), reply)
          /\ critique_for_review' =
                ResultCritique(RunResult(review_participants, rv_next,
                                         revision_prompt(rv_pending), reply))
    /\ rv_next' = NextSpeaker(review_participants, rv_next)
    /\ review_round' = review_round + 1
    /\ rv_pc' = "loop"
    /\ rv_calls' = Append(rv_calls, review_participants[rv_next + 1])
    /\ UNCHANGED <<rv_pending, rv_ret, rv_error>>

\* The loop ends without acceptance (lines 50, 86-87).
RvMaxRounds ==
    /\ rv_pc = "loop"
    /\ ~(review_round < max_review_rounds)
    /\ rv_pc' = "returned"
    /\ rv_ret' = critique_for_review
    /\ UNCHANGED <<rv_history, rv_next, critique_for_review, review_round, rv_pending,
                   rv_calls, rv_error>>

\* Faulty variant: the failed call is issued again.
OnProviderError_Retry == "retry"
\* What an exception raised by `await chat.run(...)` or `await team.run(...)`
\* does: neither perform_analysis_and_review (analysis.py 25-87) nor
\* run_single_verse_debate (debate.py 72-177) has a try statement, so the
\* exception leaves the coroutine.
OnProviderError == "raise"

\* A model call raises a provider error: nothing catches it (lines 41, 60, 82).
RvGatewayError ==
    /\ \/ rv_pc \in {"start", "revise"}
       \/ rv_pc = "loop" /\ review_round < max_review_rounds
    /\ rv_calls' = Append(rv_calls, review_participants[rv_next + 1])
    /\ rv_error' = "GatewayFailure"
    /\ rv_pc' = IF OnProviderError = "raise" THEN "raised" ELSE rv_pc
    /\ UNCHANGED <<rv_history, rv_next, critique_for_review, review_round,
                   rv_pending, rv_ret>>

InitReview == RvStart /\ C2Idle /\ DbIdle /\ CzIdle /\ SpIdle /\ RpIdle /\ MnIdle
NextReview ==
    \/ RvAnalyze /\ UNCHANGED <<c2_vars, db_vars, cz_vars, sp_vars, rp_vars, mn_vars>>
    \/ RvReview /\ UNCHANGED <<c2_vars, db_vars, cz_vars, sp_vars, rp_vars, mn_vars>>
    \/ RvRevise /\ UNCHANGED <<c2_vars, db_vars, cz_vars, sp_vars, rp_vars, mn_vars>>
    \/ RvMaxRounds /\ UNCHANGED <<c2_vars, db_vars, cz_vars, sp_vars, rp_vars, mn_vars>>
    \/ RvGatewayError /\ UNCHANGED <<c2_vars, db_vars, cz_vars, sp_vars, rp_vars, mn_vars>>
SpecReview == InitReview /\ [][NextReview]_vars

(***************************************************************************)
(* Claims about perform_analysis_and_review                                *)
(***************************************************************************)
RvCriticIdx == IndicesOf(rv_history, critic_name)
RvLinguistIdx == IndicesOf(rv_history, linguist_name)
RvParsed(i) == parse_critic_output(rv_history[i].content)
RvRejectedAt(i) == i \in RvCriticIdx /\ RvParsed(i).ok /\ ~RvParsed(i).accepted
RvAcceptedAt(i) == i \in RvCriticIdx /\ RvParsed(i).ok /\ RvParsed(i).accepted
RvParseFailedAt(i) == i \in RvCriticIdx /\ ~RvParsed(i).ok
RvAllRejected == \A i \in RvCriticIdx : RvRejectedAt(i)
RvLastLinguist == CHOOSE i \in RvLinguistIdx : \A j \in RvLinguistIdx : j <= i
RvStopped == rv_pc \in {"returned", "raised"}

\* C1: with a critic that rejects every critique, perform_analysis_and_review
\* returns after exactly 3 review/revision rounds (3 critic replies, the
\* first analysis and 3 revisions) and returns the content of the last
\* linguist reply, the third revision.  It never loops: there are never more
\* than 3 rounds or 7 model calls, and it is never stuck before it stops.
C1_AlwaysRejectedStopsAfterThreeRounds ==
    /\ review_round <= 3
    /\ Cardinality(RvCriticIdx) <= 3
    /\ Cardinality(RvLinguistIdx) <= 4
    /\ RvStopped \/ ENABLED NextReview
    /\ (rv_pc = "returned" /\ RvAllRejected) =>
          /\ review_round = 3
          /\ Cardinality(RvCriticIdx) = 3
          /\ Cardinality(RvLinguistIdx) = 4
          /\ rv_ret = rv_history[RvLastLinguist].content
          /\ RvLastLinguist = Len(rv_history)
    /\ (RvAllRejected /\ Cardinality(RvCriticIdx) = 3 /\ rv_pc = "loop") =>
          /\ ~ENABLED RvReview
          /\ ENABLED RvMaxRounds
C1_Witness ==
    /\ rv_pc = "returned" /\ RvAllRejected
    /\ review_round = 3 /\ Cardinality(RvCriticIdx) = 3

\* C2: when a critic reply does not parse, the protocol returns at once the
\* current critique unmodified (the linguist reply the critic was shown):
\* the failing reply is the last message, so no linguist or critic call
\* follows it.
C2_ParseFailureReturnsCurrentCritique ==
    \A i \in 1..Len(rv_history) :
        RvParseFailedAt(i) =>
            /\ i = Len(rv_history)
            /\ rv_pc = "returned"
            /\ rv_ret = critique_for_review
            /\ rv_history[i - 2].source = linguist_name
            /\ rv_ret = rv_history[i - 2].content
C2_Witness ==
    /\ rv_pc = "returned"
    /\ RvParseFailedAt(Len(rv_history))
    /\ review_round = 1

\* C3: when the critic accepts in review round k (1 <= k <= 3), the
\* protocol returns at once the critique the critic just reviewed, the
\* linguist's reply after k-1 revisions, and makes no further model call.
C3_AcceptanceReturnsReviewedCritique ==
    \A i \in 1..Len(rv_history) :
        RvAcceptedAt(i) =>
            /\ i = Len(rv_history)
            /\ rv_pc = "returned"
            /\ review_round + 1 \in 1..3
            /\ Cardinality(RvCriticIdx) = review_round + 1
            /\ Cardinality(RvLinguistIdx) = review_round + 1
            /\ rv_history[i - 2].source = linguist_name
            /\ rv_ret = rv_history[i - 2].content
            /\ rv_ret = rv_history[RvLastLinguist].content
C3_Witness ==
    /\ rv_pc = "returned"
    /\ RvAcceptedAt(Len(rv_history))
    /\ review_round = 2

\* C4: a critic reply whose JSON object does not have exactly the two
\* fields accepted and reasoning (a field missing, or any extra field) is a
\* parse failure, and the protocol returns the current critique.
ExactlyTwoFields(text) ==
    LET data == Loads(Strip(text))
    IN /\ data.ok
       /\ data.v.t = "dict"
       /\ KeySet(data.v) = {<<"accepted">>, <<"reasoning">>}
C4_ExtraOrMissingFieldIsParseFailure ==
    \A i \in RvCriticIdx :
        ~ExactlyTwoFields(rv_history[i].content) =>
            /\ ~RvParsed(i).ok
            /\ rv_pc = "returned"
            /\ rv_ret = rv_history[i - 2].content

\* The task messages of the conversation, by the instruction they carry.
RvTaskIdx == IndicesOf(rv_history, "user")
RvIsCriticInstruction(i) ==
    /\ i \in RvTaskIdx
    /\ \E critique \in {SubSeq(rv_history[i].content, 5, Len(rv_history[i].content))} :
          rv_history[i].content = critic_instruction(critique)
RvIsAnalysisPrompt(i) == i \in RvTaskIdx /\ rv_history[i].content = analysis_prompt
RvIsRevisionPrompt(i) ==
    /\ i \in RvTaskIdx
    /\ Len(rv_history[i].content) >= 4
    /\ \E reasoning \in {SubSeq(rv_history[i].content, 4, Len(rv_history[i].content) - 1)} :
          rv_history[i].content = revision_prompt(reasoning)
RvSpeakerOfCall(k) == IF k % 2 = 1 THEN linguist_name ELSE critic_name

\* C33: in perform_analysis_and_review every run takes one turn of the
\* shared round-robin conversation, and the speakers alternate linguist,
\* critic, linguist, critic, ... from the linguist on: the k-th call goes
\* to the linguist when k is odd and to the critic when k is even, every
\* task message is followed by exactly one reply, a critic instruction by
\* a reply of the critic, the analysis prompt and a revision instruction by
\* a reply of the linguist.
C33_SpeakersAlternateFromLinguist ==
    /\ \A k \in 1..Len(rv_calls) : rv_calls[k] = RvSpeakerOfCall(k)
    /\ Len(rv_history) % 2 = 0
    /\ \A i \in 1..Len(rv_history) :
          /\ i % 2 = 1 =>
                /\ i \in RvTaskIdx
                /\ RvIsCriticInstruction(i) \/ RvIsAnalysisPrompt(i) \/ RvIsRevisionPrompt(i)
                /\ RvIsCriticInstruction(i) => rv_history[i + 1].source = critic_name
                /\ RvIsAnalysisPrompt(i) => rv_history[i + 1].source = linguist_name
                /\ RvIsRevisionPrompt(i) => rv_history[i + 1].source = linguist_name
          /\ i % 2 = 0 => rv_history[i].source = RvSpeakerOfCall(i \div 2)
C33_Witness ==
    /\ Len(rv_history) = 14
    /\ RvIsRevisionPrompt(13)
    /\ RvIsCriticInstruction(11)
    /\ rv_history[14].source = linguist_name

RvCallsTo(name) == {k \in 1..Len(rv_calls) : rv_calls[k] = name}
RvNotLinguistIdx == {i \in 1..Len(rv_history) : rv_history[i].source # linguist_name}

\* C34: an invocation of perform_analysis_and_review issues at most 4
\* calls to the linguist and at most 3 to the critic; the value returned
\* is the content of the most recent message of the linguist, and is
\* neither a reply of the critic nor the text of an instruction; when all
\* 3 rounds were rejected, the value returned is the third revision (the
\* fourth message of the linguist), which is the last message of the
\* conversation: no critic instruction carries it and no critic reply
\* follows it.
C34_ReturnsMostRecentLinguistMessage ==
    /\ Cardinality(RvCallsTo(linguist_name)) <= 4
    /\ Cardinality(RvCallsTo(critic_name)) <= 3
    /\ rv_pc = "returned" =>
          /\ RvLinguistIdx # {}
          /\ rv_ret = rv_history[RvLastLinguist].content
          /\ \A i \in RvNotLinguistIdx : rv_ret # rv_history[i].content
    /\ (rv_pc = "returned" /\ RvAllRejected /\ Cardinality(RvCriticIdx) = 3) =>
          /\ Cardinality(RvLinguistIdx) = 4
          /\ RvLastLinguist = Len(rv_history)
          /\ RvIsRevisionPrompt(Len(rv_history) - 1)
          /\ rv_ret = rv_history[Len(rv_history)].content
          /\ \A i \in RvTaskIdx : rv_history[i].content # critic_instruction(rv_ret)
C34_Witness ==
    /\ rv_pc = "returned"
    /\ RvAllRejected
    /\ Cardinality(RvCallsTo(linguist_name)) = 4
    /\ Cardinality(RvCallsTo(critic_name)) = 3
    /\ rv_ret = rv_history[14].content

(***************************************************************************)
(* chat2.py: one groupchat.run of run_analysis, with the termination       *)
(* CriticApproval("Validator_GPT") | MaxMessageTermination(MAX_TURNS)      *)
(***************************************************************************)
scorer_name == "PRIMARY_LINGUIST"
validator_name == "Validator_GPT"
roundtable == <<scorer_name, validator_name>>
TURNS == 3
MAX_TURNS == (Len(roundtable) * TURNS) + 1

\* CriticDecision.model_validate(data): four required fields.
NoDecision == [ok |-> FALSE, approved_by_critic |-> FALSE]
CriticDecision(data) ==
    IF /\ data.t = "dict"
       /\ HasKey(data, <<"approved_by_critic">>)
       /\ IsBoolLike(GetKey(data, <<"approved_by_critic">>, JNull))
       /\ HasKey(data, <<"score">>)
       /\ GetKey(data, <<"score">>, JNull).t = "int"
       /\ HasKey(data, <<"score_justification">>)
       /\ GetKey(data, <<"score_justification">>, JNull).t = "str"
       /\ HasKey(data, <<"critique">>)
       /\ GetKey(data, <<"critique">>, JNull).t = "str"
    THEN [ok |-> TRUE,
          approved_by_critic |-> BoolOf(GetKey(data, <<"approved_by_critic">>, JNull))]
    ELSE NoDecision

\* lines 113-126 for one message of the critic: json.loads, model_validate,
\* the approval flag; a parse error is ignored.
DecisionApproves(content) ==
    LET data == Loads(content)
    IN data.ok /\ CriticDecision(data.v).ok /\ CriticDecision(data.v).approved_by_critic

\* Faulty variant: the sender of the message is not checked.
CriticApprovalStops_AnySender(critic, messages) ==
    \E i \in 1..Len(messages) :
        /\ messages[i].source # ""
        /\ messages[i].content # <<>>
        /\ DecisionApproves(messages[i].content)

\* CriticApproval.__call__ (lines 105-128): TRUE when a StopMessage is
\* returned for these messages.
CriticApprovalStops(critic, messages) ==
    \E i \in 1..Len(messages) :
        /\ messages[i].source # ""
        /\ messages[i].content # <<>>
        /\ messages[i].source = critic
        /\ DecisionApproves(messages[i].content)

\* MaxMessageTermination.__call__: the count after these messages, and
\* whether it stops.
MaxMessageCount(count, messages) == count + Len(messages)
MaxMessageStops(count, messages, max_messages) ==
    MaxMessageCount(count, messages) >= max_messages

\* The replies of the two participants of the roundtable.
Decision(approved, score) ==
    JDict(<<Field("approved_by_critic", JBool(approved)), Field("score", JInt(score)),
            Field("score_justification", JStr(<<"why">>)),
            Field("critique", JStr(<<"fix">>))>>)
ValidatorReplies ==
    { Dumps(Decision(a, 7)) : a \in BOOLEAN }
    \cup { Dumps(JDict(<<Field("approved_by_critic", JBool(TRUE))>>)),
           <<"approved", ":", " ", "true">>,
           <<>> }
ScorerReplies ==
    { <<"Score", ":", " ", "7">>, Dumps(Decision(TRUE, 7)) }
C2Replies(next) ==
    IF roundtable[next + 1] = validator_name THEN ValidatorReplies ELSE ScorerReplies

c2_prompt == <<"ROLE", "GROUND", "TRUTH", "TASK">>

C2Begin ==
    /\ c2_pc = "start" /\ c2_messages = <<>> /\ c2_next = 0
    /\ c2_count = 0 /\ c2_terminated = FALSE

\* groupchat.run(task=prompt) (line 274): the task is the first message and
\* the termination condition sees it.
C2Start ==
    /\ c2_pc = "start"
    /\ LET delta == <<Message("user", c2_prompt)>>
           stop == CriticApprovalStops(validator_name, delta)
       IN /\ c2_messages' = delta
          /\ c2_count' = MaxMessageCount(c2_count, delta)
          /\ c2_terminated' = stop
          /\ c2_pc' = IF stop \/ MaxMessageStops(c2_count, delta, MAX_TURNS)
                      THEN "stopped" ELSE "running"
    /\ UNCHANGED c2_next

\* One turn: the next participant answers, the message is appended and the
\* termination condition is evaluated on it.
C2Turn ==
    /\ c2_pc = "running"
    /\ \E reply \in C2Replies(c2_next) :
          LET delta == <<Message(roundtable[c2_next + 1], reply)>>
              stop == CriticApprovalStops(validator_name, delta)
          IN /\ c2_messages' = c2_messages \o delta
             /\ c2_count' = MaxMessageCount(c2_count, delta)
             /\ c2_terminated' = stop
             /\ c2_pc' = IF stop \/ MaxMessageStops(c2_count, delta, MAX_TURNS)
                         THEN "stopped" ELSE "running"
    /\ c2_next' = NextSpeaker(roundtable, c2_next)

\* A model call raises a provider error; the run raises.
C2GatewayError ==
    /\ c2_pc = "running"
    /\ c2_pc' = "raised"
    /\ UNCHANGED <<c2_messages, c2_next, c2_count, c2_terminated>>

InitChat2 == RvIdle /\ C2Begin /\ DbIdle /\ CzIdle /\ SpIdle /\ RpIdle /\ MnIdle
NextChat2 ==
    \/ C2Start /\ UNCHANGED <<rv_vars, db_vars, cz_vars, sp_vars, rp_vars, mn_vars>>
    \/ C2Turn /\ UNCHANGED <<rv_vars, db_vars, cz_vars, sp_vars, rp_vars, mn_vars>>
    \/ C2GatewayError /\ UNCHANGED <<rv_vars, db_vars, cz_vars, sp_vars, rp_vars, mn_vars>>
SpecChat2 == InitChat2 /\ [][NextChat2]_vars

\* C5: with the termination CriticApproval OR MaxMessageTermination(N),
\* N = 7, the conversation never holds more than N messages; a critic
\* message whose parsed content has the approval flag true is the last
\* message of the run, which has stopped there, also with fewer than N
\* messages; and a run that has stopped with fewer than N messages has
\* stopped at such a message.
C2ApprovedAt(i) ==
    /\ c2_messages[i].source = validator_name
    /\ DecisionApproves(c2_messages[i].content)
C5_StopsAtApprovalOrMessageCount ==
    /\ Len(c2_messages) <= 7
    /\ \A i \in 1..Len(c2_messages) :
          C2ApprovedAt(i) => (i = Len(c2_messages) /\ c2_pc = "stopped")
    /\ c2_pc = "stopped" =>
          (Len(c2_messages) = 7 \/ C2ApprovedAt(Len(c2_messages)))
    /\ (c2_pc = "running" /\ c2_messages # <<>>) => Len(c2_messages) < 7
C5_Witness ==
    /\ c2_pc = "stopped"
    /\ Len(c2_messages) = 5
    /\ C2ApprovedAt(5)
    /\ c2_messages[2].content = Dumps(Decision(TRUE, 7))

(***************************************************************************)
(* teams/debate.py: process_interleaved_dataframe                          *)
(***************************************************************************)
MaxGroups == 3       \* verse groups of the input table
MaxGroupRows == 3    \* rows of one verse group

NumDebators == 2     \* len(self.linguists)
rounds == 2
\* Faulty variant: the maximum of the second run is the task message alone.
closing_max_messages_TaskOnly == NumDebators - 1
\* Faulty variant: the second run has a turn for the moderator as well.
closing_max_messages_WithModerator == NumDebators + 2
\* Faulty variant: the task message is not counted for.
debate_rounds_NoSeed == (NumDebators + 1) * rounds
debate_rounds == (NumDebators + 1) * rounds + 1
closing_max_messages == NumDebators + 1
\* model calls of one run_single_verse_debate: each run publishes its task
\* as the first counted message and then takes turns up to the maximum
DebateCalls == (debate_rounds - 1) + (closing_max_messages - 1)

\* Faulty variant: the validation expects 3 analyses, as its comment says.
GroupIsDebated_Three(n) == ~(n # 3)
\* line 189: a group is debated unless len(group_df) != 2
GroupIsDebated(n) == ~(n # 2)

RowsOf(results, g) == Cardinality({i \in 1..Len(results) : results[i] = g})

\* lines 65-68, 134, 141: the participants of debate_team; the agents of
\* self.linguists are made once, the moderator for each verse
debators == <<"GEMINI_LINGUIST", "GPT5_LINGUIST">>
moderator_name == "Moderator"
debate_participants == debators \o <<moderator_name>>

\* The closing instruction of run_single_verse_debate (debate.py 156-159).
closing_instruction == <<" ", "NWT", " ", "to", " ", "closing", " ", "statements", " ">>

\* A message of debate_team's thread: its source, the run it was made in,
\* its content, and the number of messages of the thread its author was
\* given (0 for a task, which the caller writes).
ThreadMessage(source, run, content, seen) ==
    [source |-> source, run |-> run, content |-> content, seen |-> seen]

\* The reply of a model to a call: a text that names the call.
ModelReply(speaker, seen) ==
    <<speaker, "answers", DigitToken(seen \div 10), DigitToken(seen % 10)>>

\* The model context of an agent object: the groups whose messages it has
\* been given.  An AssistantAgent adds the messages handed to it at each of
\* its turns, and keeps them while the object lives.
NoContext == [a \in {debate_participants[i] : i \in 1..Len(debate_participants)} |-> {}]
\* lines 111, 134: the moderator is a new object for each verse; the
\* linguists' agents are the objects made in __init__
ContextAtDebateStart(context) == [context EXCEPT ![moderator_name] = {}]
ContextAfterTurn(context, speaker, group) ==
    [context EXCEPT ![speaker] = @ \cup {group}]

\* The rows of verse group g, as run_initial_analysis writes them
\* (main.py 116-127): one row for each analysis of the verse.
GroupRow(g, i) ==
    [Chapter |-> 1, Verse |-> g,
     Greek_Text |-> <<"greek", DigitToken(g)>>,
     Translation |-> <<"translation", DigitToken(g)>>,
     Face_Annotation |-> <<"face", DigitToken(g)>>,
     Agent_Name |-> debators[((i - 1) % Len(debators)) + 1],
     Score |-> 3 + i,
     Model_Analysis |-> <<"analysis", DigitToken(g), DigitToken(i)>>]
GroupRows(g, n) == [i \in 1..n |-> GroupRow(g, i)]

\* lines 93-96: the line of the initial context for each row of the group
RECURSIVE AnalysesText(_)
AnalysesText(rows) ==
    IF rows = <<>> THEN <<>>
    ELSE <<"- **">> \o <<rows[1].Agent_Name>> \o <<"** (Initial Score: ">>
         \o <<DigitToken(rows[1].Score)>> \o <<"): ">> \o rows[1].Model_Analysis
         \o <<"\n">> \o AnalysesText(Tail(rows))

\* The two statements that build a text: `=` and `+=`.
Assigned(old, text) == text
Added(old, text) == old \o text

\* lines 77-101: initial_context; lines 87-89 assign, lines 90-101 add
InitialContext(group_df) ==
    LET chapter == group_df[1].Chapter
        verse == group_df[1].Verse
        face == group_df[1].Face_Annotation
        greek_text == group_df[1].Greek_Text
        translation == group_df[1].Translation
        l87 == Assigned(<<>>, <<"## Debate Context for ", DigitToken(chapter), " ",
                                DigitToken(verse), "\n">>)
        l88 == Assigned(l87, <<"**Greek Text** ">> \o greek_text \o <<"\n\n">>)
        l89 == Assigned(l88, <<"** Translation ** ">> \o translation \o <<"\n\n">>)
        l90 == Added(l89, <<"**Face Annotation:** ">> \o face \o <<"\n\n">>)
        l91 == Added(l90, <<"### Initial Independent Analyses:\n">>)
        l94 == Added(l91, AnalysesText(group_df))
    IN Added(l94, <<"\n**TASK:** Debate these initial findings.">>)

\* line 145, 156: the statement after `await debate_team.run(...)` is
\* reached when the run has returned: the termination has stopped it and
\* no call of it is outstanding
RunReturned_NotAwaited(count, max_messages, pending) == TRUE
RunReturned(count, max_messages, pending) ==
    MaxMessageStops(count, <<>>, max_messages) /\ pending = {}

\* The engine calls the participants one after another: the next speaker
\* is called when no call is outstanding.
CallMayStart(pending) == pending = {}

\* lines 140-145, 156: both runs are runs of the one debate_team, which
\* keeps its thread
TeamThread_NewTeam(thread) == SubSeq(thread, 1, 0)
TeamThread(thread) == thread

\* line 145, 156: the messages of the result of a run
RunMessages(thread, run) == SelectSeq(thread, LAMBDA m : m.run = run)
ContentsOf(messages) == [i \in 1..Len(messages) |-> JStr(messages[i].content)]
\* lines 151-154: debate = the contents of debate_results.messages[1:]
DebateList_WithSeed(messages) == ContentsOf(messages)
DebateList(messages) == ContentsOf(Tail(messages))
\* lines 162-165: closing_statements = the contents of closing_results.messages
ClosingList(messages) == ContentsOf(messages)

\* lines 167-175: row_data
RowData(group_df, thread) ==
    [Chapter |-> group_df[1].Chapter,
     Verse |-> group_df[1].Verse,
     Face_Annotation |-> group_df[1].Face_Annotation,
     Greek_Text |-> group_df[1].Greek_Text,
     Translation |-> group_df[1].Translation,
     Debate |-> Dumps(JList(DebateList(RunMessages(thread, "debate")))),
     Closing_Statements |-> Dumps(JList(ClosingList(RunMessages(thread, "closing"))))]

DbBegin ==
    /\ db_pc = "loop"
    /\ db_groups \in UNION {[1..n -> 1..MaxGroupRows] : n \in 1..MaxGroups}
    /\ db_idx = 1 /\ db_turns = 0
    /\ final_results = <<>> /\ db_skipped = {} /\ db_debated = {}
    /\ db_failed = {} /\ db_error = "none"
    /\ db_phase = "none" /\ db_thread = <<>> /\ db_next = 0
    /\ db_count = 0 /\ db_max = 0 /\ db_context = NoContext
    /\ db_pending = {} /\ row_data = <<>>

\* lines 189-191: the group has not 2 rows, it is reported and skipped
DbSkip ==
    /\ db_pc = "loop" /\ db_idx <= Len(db_groups)
    /\ ~GroupIsDebated(db_groups[db_idx])
    /\ db_skipped' = db_skipped \cup {db_idx}
    /\ db_idx' = db_idx + 1
    /\ UNCHANGED <<db_pc, db_groups, db_turns, final_results, db_debated,
                   db_failed, db_error, db_phase, db_thread, db_next, db_count,
                   db_max, db_context, db_pending, row_data>>

\* lines 194, 77-145: run_single_verse_debate is called for the group: the
\* initial context and the moderator are made, the team is made with the
\* termination at debate_rounds messages, and the first run publishes the
\* initial context
DbStartDebate ==
    /\ db_pc = "loop" /\ db_idx <= Len(db_groups)
    /\ GroupIsDebated(db_groups[db_idx])
    /\ db_debated' = db_debated \cup {db_idx}
    /\ db_turns' = 0
    /\ db_pc' = "debate"
    /\ db_phase' = "SEEDED"
    /\ \E initial_context \in {InitialContext(GroupRows(db_idx, db_groups[db_idx]))} :
          db_thread' = <<ThreadMessage("user", "debate", initial_context, 0)>>
    /\ db_next' = 0
    /\ db_max' = debate_rounds
    /\ db_count' = MaxMessageCount(0, db_thread')
    /\ db_context' = ContextAtDebateStart(db_context)
    /\ UNCHANGED <<db_groups, db_idx, final_results, db_skipped, db_failed, db_error,
                   db_pending, row_data>>

\* a run of debate_team is in progress and has not reached its maximum
DbRunContinues == ~MaxMessageStops(db_count, <<>>, db_max)

\* lines 145, 156: the run hands the thread to the next participant, whose
\* agent calls its model
DbCall ==
    /\ db_pc = "debate" /\ db_phase \in {"SEEDED", "DEBATING", "CLOSING"}
    /\ DbRunContinues
    /\ CallMayStart(db_pending)
    /\ db_pending' = db_pending \cup
           {[speaker |-> debate_participants[db_next + 1], seen |-> Len(db_thread)]}
    /\ db_next' = NextSpeaker(debate_participants, db_next)
    /\ UNCHANGED <<db_pc, db_groups, db_idx, db_turns, final_results, db_skipped,
                   db_debated, db_failed, db_error, db_phase, db_thread, db_count,
                   db_max, db_context, row_data>>

\* line 145: the model answers a call of the first run and the reply is
\* added to the thread
DbDebateTurn ==
    /\ db_pc = "debate" /\ db_phase \in {"SEEDED", "DEBATING"}
    /\ \E call \in db_pending :
          /\ db_thread' = Append(db_thread,
                 ThreadMessage(call.speaker, "debate",
                               ModelReply(call.speaker, call.seen), call.seen))
          /\ db_context' = ContextAfterTurn(db_context, call.speaker, db_idx)
          /\ db_pending' = db_pending \ {call}
    /\ db_count' = MaxMessageCount(db_count, <<db_thread'[Len(db_thread')]>>)
    /\ db_turns' = db_turns + 1
    /\ db_phase' = "DEBATING"
    /\ UNCHANGED <<db_pc, db_groups, db_idx, final_results, db_skipped,
                   db_debated, db_failed, db_error, db_max, db_next, row_data>>

\* lines 147-159: the first run has returned; the termination is reset and
\* its maximum set to len(debators) + 1, and the second run publishes the
\* closing instruction
DbClosingStart ==
    /\ db_pc = "debate" /\ db_phase \in {"SEEDED", "DEBATING"}
    /\ RunReturned(db_count, db_max, db_pending)
    /\ db_max' = closing_max_messages
    /\ db_thread' = Append(TeamThread(db_thread),
                           ThreadMessage("user", "closing", closing_instruction, 0))
    /\ db_count' = MaxMessageCount(0, <<db_thread'[Len(db_thread')]>>)
    /\ db_phase' = "CLOSING"
    /\ UNCHANGED <<db_pc, db_groups, db_idx, db_turns, final_results, db_skipped,
                   db_debated, db_failed, db_error, db_next, db_context,
                   db_pending, row_data>>

\* line 156: the model answers a call of the second run and the reply is
\* added to the thread
DbClosingTurn ==
    /\ db_pc = "debate" /\ db_phase = "CLOSING"
    /\ \E call \in db_pending :
          /\ db_thread' = Append(db_thread,
                 ThreadMessage(call.speaker, "closing",
                               ModelReply(call.speaker, call.seen), call.seen))
          /\ db_context' = ContextAfterTurn(db_context, call.speaker, db_idx)
          /\ db_pending' = db_pending \ {call}
    /\ db_count' = MaxMessageCount(db_count, <<db_thread'[Len(db_thread')]>>)
    /\ db_turns' = db_turns + 1
    /\ UNCHANGED <<db_pc, db_groups, db_idx, final_results, db_skipped,
                   db_debated, db_failed, db_error, db_phase, db_max, db_next,
                   row_data>>

\* lines 145, 156, 194: a model call raises a provider error; neither
\* run_single_verse_debate nor the loop catches it
DbGatewayError ==
    /\ db_pc = "debate" /\ db_phase \in {"SEEDED", "DEBATING", "CLOSING"}
    /\ \E call \in db_pending :
          db_pending' = IF OnProviderError = "raise"
                        THEN db_pending \ {call} ELSE db_pending
    /\ db_failed' = db_failed \cup {db_idx}
    /\ db_error' = "GatewayFailure"
    /\ db_pc' = IF OnProviderError = "raise" THEN "raised" ELSE db_pc
    /\ UNCHANGED <<db_groups, db_idx, db_turns, final_results, db_skipped, db_debated,
                   db_phase, db_thread, db_next, db_count, db_max, db_context,
                   row_data>>

\* lines 161-177, 194-196: the second run has returned; the row of the
\* verse is built, returned and appended
DbDebateDone ==
    /\ db_pc = "debate" /\ db_phase = "CLOSING"
    /\ RunReturned(db_count, db_max, db_pending)
    /\ \E row \in {RowData(GroupRows(db_idx, db_groups[db_idx]), db_thread)} :
          row_data' = row
    /\ final_results' = Append(final_results, db_idx)
    /\ db_idx' = db_idx + 1
    /\ db_pc' = "loop"
    /\ db_phase' = "SERIALIZED"
    /\ UNCHANGED <<db_groups, db_turns, db_skipped, db_debated, db_failed, db_error,
                   db_thread, db_next, db_count, db_max, db_context, db_pending>>

\* line 201: pd.concat(final_results); pd.concat of an empty list raises
\* ValueError("No objects to concatenate")
DbReturn ==
    /\ db_pc = "loop" /\ db_idx > Len(db_groups)
    /\ IF final_results = <<>>
       THEN db_pc' = "raised" /\ db_error' = "ValueError"
       ELSE db_pc' = "returned" /\ UNCHANGED db_error
    /\ UNCHANGED <<db_groups, db_idx, db_turns, final_results, db_skipped,
                   db_debated, db_failed, db_phase, db_thread, db_next, db_count,
                   db_max, db_context, db_pending, row_data>>

InitDebate == RvIdle /\ C2Idle /\ DbBegin /\ CzIdle /\ SpIdle /\ RpIdle /\ MnIdle
NextDebate ==
    \/ DbSkip /\ UNCHANGED <<rv_vars, c2_vars, cz_vars, sp_vars, rp_vars, mn_vars>>
    \/ DbStartDebate /\ UNCHANGED <<rv_vars, c2_vars, cz_vars, sp_vars, rp_vars, mn_vars>>
    \/ DbCall /\ UNCHANGED <<rv_vars, c2_vars, cz_vars, sp_vars, rp_vars, mn_vars>>
    \/ DbDebateTurn /\ UNCHANGED <<rv_vars, c2_vars, cz_vars, sp_vars, rp_vars, mn_vars>>
    \/ DbClosingStart /\ UNCHANGED <<rv_vars, c2_vars, cz_vars, sp_vars, rp_vars, mn_vars>>
    \/ DbClosingTurn /\ UNCHANGED <<rv_vars, c2_vars, cz_vars, sp_vars, rp_vars, mn_vars>>
    \/ DbGatewayError /\ UNCHANGED <<rv_vars, c2_vars, cz_vars, sp_vars, rp_vars, mn_vars>>
    \/ DbDebateDone /\ UNCHANGED <<rv_vars, c2_vars, cz_vars, sp_vars, rp_vars, mn_vars>>
    \/ DbReturn /\ UNCHANGED <<rv_vars, c2_vars, cz_vars, sp_vars, rp_vars, mn_vars>>
SpecDebate == InitDebate /\ [][NextDebate]_vars

DbAllGroups == 1..Len(db_groups)
DbPairs == {g \in DbAllGroups : db_groups[g] = 2}

C7_GroupingMismatchNeverCrashes ==
    db_failed = {} => db_pc # "raised"

\* C8: the failure of one group's debate does not abort the batch: when
\* the function has ended after such a failure, every remaining group has
\* been processed (skipped or debated) and the rows of the groups that
\* succeeded are returned.
C8_TaskFailureDoesNotAbortBatch ==
    (db_failed # {} /\ db_pc \in {"raised", "returned"}) =>
        /\ DbAllGroups = db_skipped \cup db_debated
        /\ final_results # <<>> => db_pc = "returned"

(***************************************************************************)
(* Claims about run_single_verse_debate                                    *)
(***************************************************************************)
DbReplies(run) ==
    {i \in 1..Len(db_thread) : db_thread[i].run = run /\ db_thread[i].source # "user"}
DbInstruction ==
    {i \in 1..Len(db_thread) : db_thread[i].run = "closing" /\ db_thread[i].source = "user"}
DbSpoke(run) == {db_thread[i].source : i \in DbReplies(run)}
DbDebatorNames == {debators[i] : i \in 1..Len(debators)}

\* The order of the phases of one invocation; a new invocation is seeded
\* after the row of the one before has been built.
PhaseOrder ==
    {<<"none", "SEEDED">>, <<"SEEDED", "DEBATING">>, <<"DEBATING", "CLOSING">>,
     <<"CLOSING", "SERIALIZED">>, <<"SERIALIZED", "SEEDED">>}

\* C17: no participant is given as context a message made while an earlier
\* task was processed: every participant that has spoken in the debate of
\* the group in progress holds the messages of that group only.
C17_NoContextFromEarlierTask ==
    db_pc = "debate" =>
        \A i \in DbReplies("debate") \cup DbReplies("closing") :
            db_context[db_thread[i].source] \subseteq {db_idx}

\* C20: run_single_verse_debate goes through the phases SEEDED, DEBATING,
\* CLOSING, SERIALIZED in that order and never back: every turn of the
\* debate run is before the closing instruction, and the row is built only
\* when the debate run has had its turns and every debator has answered
\* the closing instruction.
C20_PhasesInOrder ==
    /\ [](/\ \A i \in DbReplies("debate") : \A k \in DbInstruction : i < k
          /\ db_phase \in {"SEEDED", "DEBATING"} => DbInstruction = {}
          /\ db_phase = "DEBATING" => DbReplies("debate") # {}
          /\ db_phase \in {"CLOSING", "SERIALIZED"} =>
                /\ Cardinality(DbInstruction) = 1
                /\ DbSpoke("debate") =
                       {debate_participants[i] : i \in 1..Len(debate_participants)}
          /\ db_phase = "SERIALIZED" => DbDebatorNames \subseteq DbSpoke("closing"))
    /\ [][db_phase' # db_phase => <<db_phase, db_phase'>> \in PhaseOrder]_vars
C20_Witness ==
    /\ db_phase = "SERIALIZED"
    /\ Len(final_results) = 2
    /\ Cardinality(DbReplies("debate")) = debate_rounds - 1
    /\ DbSpoke("closing") = DbDebatorNames

DbDebateRun == RunMessages(db_thread, "debate")
DbClosingRun == RunMessages(db_thread, "closing")
DbSources(messages) == [i \in 1..Len(messages) |-> messages[i].source]
DbTimesSpoken(messages, name) ==
    Cardinality({i \in 1..Len(messages) : messages[i].source = name})
DbDebateRunEnded == db_phase \in {"CLOSING", "SERIALIZED"}
DbInFlight ==
    {g \in db_debated : RowsOf(final_results, g) = 0 /\ g \notin db_failed}
Embeds(text, part) ==
    \E i \in 0..(Len(text) - Len(part)) : SubSeq(text, i + 1, i + Len(part)) = part

\* C21: at most one model call is outstanding and at most one verse group
\* is being debated at any time; a call is issued with the whole thread,
\* after the reply to the call before it has been added, and nothing is
\* added to the thread while it is outstanding.
C21_OneCallAndOneTaskAtATime ==
    /\ Cardinality(db_pending) <= 1
    /\ Cardinality(DbInFlight) <= 1
    /\ db_pending # {} => DbInFlight = {db_idx}
    /\ db_pc = "debate" => \A call \in db_pending : call.seen = Len(db_thread)
    /\ \A i \in 1..Len(db_thread) :
          db_thread[i].source # "user" => db_thread[i].seen = i - 1
C21_Witness ==
    /\ Len(final_results) = 1
    /\ db_pending # {}
    /\ Len(db_thread) = debate_rounds - 1

\* C22: the first run of the debate stops when the conversation holds
\* exactly (3 participants x 2 rounds) + 1 = 7 messages and not before: the
\* initial context, then six turns in the order linguist 1, linguist 2,
\* moderator, linguist 1, linguist 2, moderator, each participant speaking
\* exactly twice.
C22_DebateRunIsSevenMessages ==
    /\ Len(DbDebateRun) <= 7
    /\ \A i \in 1..Len(DbDebateRun) :
          DbDebateRun[i].source =
              <<"user", "GEMINI_LINGUIST", "GPT5_LINGUIST", "Moderator",
                "GEMINI_LINGUIST", "GPT5_LINGUIST", "Moderator">>[i]
    /\ (db_pc = "debate" /\ ~DbDebateRunEnded /\ DbDebateRun # <<>>
           /\ Len(DbDebateRun) < 7) => DbRunContinues
    /\ DbDebateRunEnded =>
          /\ Len(DbDebateRun) = 7
          /\ \A i \in 1..Len(debate_participants) :
                DbTimesSpoken(DbDebateRun, debate_participants[i]) = 2
C22_Witness ==
    /\ db_phase = "CLOSING"
    /\ Len(db_thread) = 8
    /\ DbTimesSpoken(DbDebateRun, "Moderator") = 2

\* C23: the transcript of a DebateResult is the messages of the first run
\* after the first one, in the order of the conversation: the initial
\* context is not in it, and no message of the closing run is.
C23_TranscriptIsDebateAfterSeed ==
    db_phase = "SERIALIZED" =>
        \E debate \in {Loads(row_data.Debate)} :
            /\ debate.ok
            /\ debate.v = JList([i \in 1..(Len(DbDebateRun) - 1) |->
                                    JStr(DbDebateRun[i + 1].content)])
            /\ \A k \in 1..Len(debate.v.items) :
                  /\ debate.v.items[k] # JStr(db_thread[1].content)
                  /\ \A c \in 1..Len(DbClosingRun) :
                        debate.v.items[k] # JStr(DbClosingRun[c].content)
C23_Witness ==
    /\ db_phase = "SERIALIZED"
    /\ Len(Loads(row_data.Debate).v.items) = 6
    /\ Loads(row_data.Debate).v.items[1] = JStr(db_thread[2].content)

\* C24: the closing run adds exactly three messages to the conversation:
\* the closing instruction, then one statement of each of the two linguists
\* in their order, and no turn of the moderator; the closing statements of
\* the row are all three, the instruction first.
C24_ClosingRunIsThreeMessages ==
    /\ Len(DbClosingRun) <= 3
    /\ \A i \in 1..Len(DbClosingRun) :
          DbClosingRun[i].source = <<"user", "GEMINI_LINGUIST", "GPT5_LINGUIST">>[i]
    /\ db_phase = "SERIALIZED" =>
          /\ Len(DbClosingRun) = 3
          /\ SubSeq(db_thread, Len(db_thread) - 2, Len(db_thread)) = DbClosingRun
          /\ \E closing_statements \in {Loads(row_data.Closing_Statements)} :
                /\ closing_statements.ok
                /\ closing_statements.v =
                       JList(<<JStr(closing_instruction),
                               JStr(DbClosingRun[2].content),
                               JStr(DbClosingRun[3].content)>>)
C24_Witness ==
    /\ db_phase = "SERIALIZED"
    /\ Len(Loads(row_data.Closing_Statements).v.items) = 3
    /\ DbSources(DbClosingRun) = <<"user", "GEMINI_LINGUIST", "GPT5_LINGUIST">>

\* C25: the second run goes on with the history of the first: the closing
\* instruction is added to the thread as the first run left it, the turn
\* order is not restarted, and every closing statement is made with all the
\* messages of the debate run, and the closing messages before it, given to
\* its author.
C25_SecondRunContinuesHistory ==
    /\ [](DbClosingRun # <<>> =>
            /\ SubSeq(db_thread, 1, Len(DbDebateRun)) = DbDebateRun
            /\ Len(DbDebateRun) > 1
            /\ \A i \in 1..Len(db_thread) :
                  (db_thread[i].run = "closing" /\ db_thread[i].source # "user") =>
                      /\ db_thread[i].seen = i - 1
                      /\ db_thread[i].seen > Len(DbDebateRun))
    /\ [][(db_phase # "CLOSING" /\ db_phase' = "CLOSING") =>
             /\ Len(db_thread') = Len(db_thread) + 1
             /\ SubSeq(db_thread', 1, Len(db_thread)) = db_thread
             /\ db_next' = db_next]_vars
C25_Witness ==
    /\ db_phase = "CLOSING"
    /\ Len(db_thread) = 10
    /\ db_thread[10].seen = 9

\* C26: the initial context of a debate embeds the Greek text, the
\* translation, the face annotation, and the initial score and reasoning
\* of each of the two linguists.
C26_InitialContextEmbedsAll ==
    db_pc = "debate" =>
        \E group_df \in {GroupRows(db_idx, db_groups[db_idx])} :
            /\ Embeds(db_thread[1].content, group_df[1].Greek_Text)
            /\ Embeds(db_thread[1].content, group_df[1].Translation)
            /\ Embeds(db_thread[1].content, group_df[1].Face_Annotation)
            /\ \A i \in 1..Len(group_df) :
                  /\ Embeds(db_thread[1].content, <<DigitToken(group_df[i].Score)>>)
                  /\ Embeds(db_thread[1].content, group_df[i].Model_Analysis)

(***************************************************************************)
(* Provider errors in either protocol: one invocation of                   *)
(* perform_analysis_and_review, or one run of the debate loop              *)
(***************************************************************************)
InitProtocols == InitReview \/ InitDebate
NextProtocols == NextReview \/ NextDebate
SpecProtocols == InitProtocols /\ [][NextProtocols]_vars

\* C31: when a model call of perform_analysis_and_review or of
\* run_single_verse_debate fails with a provider error, the error leaves
\* the protocol (the function has raised), the failed call is not issued
\* again (no call is in flight or can start, and exactly one call had no
\* reply), and the invocation returns no critique and appends no row for
\* the verse group.
C31_ProviderErrorPropagatesWithoutRetry ==
    /\ rv_error = "GatewayFailure" =>
          /\ rv_pc = "raised"
          /\ rv_ret = <<>>
          /\ Len(rv_calls) = Len(rv_history) \div 2 + 1
          /\ ~ENABLED NextReview
    /\ rv_error = "none" => Len(rv_calls) = Len(rv_history) \div 2
    /\ db_error = "GatewayFailure" =>
          /\ db_pc = "raised"
          /\ db_failed = {db_idx}
          /\ RowsOf(final_results, db_idx) = 0
          /\ db_pending = {}
          /\ ~ENABLED NextDebate
C31_Witness ==
    /\ db_error = "GatewayFailure"
    /\ db_phase = "CLOSING"
    /\ Len(final_results) = 1

(***************************************************************************)
(* report/coalesce.py: safe_json_parse and the consensus score of the      *)
(* debate entry                                                            *)
(***************************************************************************)
MaxStatements == 3   \* closing-statement objects of one debate row

InText(tok, text) == \E i \in 1..Len(text) : text[i] = tok

\* Faulty variant: only blank strings are skipped.
SkippedString_BlankOnly(text) == Strip(text) = <<>>
\* line 122: "Now we transition" in item or item.strip() == ""
SkippedString(text) == InText("NWT", text) \/ Strip(text) = <<>>

\* Faulty variant: the inner handler catches nothing.
InnerHandles_None(exc) == exc # exc
\* line 127: except json.JSONDecodeError
InnerHandles(exc) == exc = "JSONDecodeError"
\* Faulty variant: the outer handler catches nothing.
OuterHandles_None(exc) == exc # exc
\* line 134: except (json.JSONDecodeError, TypeError)
OuterHandles(exc) == exc \in {"JSONDecodeError", "TypeError"}

\* The outcome of a call: exc is the exception that leaves it ("none" when
\* it returns) and v the value returned.
Returns(v) == [exc |-> "none", v |-> v]
Raises(exc) == [exc |-> exc, v |-> JNull]

\* lines 118-130: the loop over the items of parsed_outer: v is
\* cleaned_list; json.loads of a string item that is no JSON raises
\* JSONDecodeError inside the inner try
RECURSIVE CleanedOutcome(_)
CleanedOutcome(items) ==
    IF items = <<>> THEN Returns(<<>>)
    ELSE Value({
         LET appended(x) == IF rest.exc = "none" THEN Returns(<<x>> \o rest.v) ELSE rest
         IN IF item.t = "str"
            THEN IF SkippedString(item.s) THEN rest
                 ELSE Value({ IF cleaned_item.ok THEN appended(cleaned_item.v)
                              ELSE IF InnerHandles("JSONDecodeError") THEN rest
                              ELSE Raises("JSONDecodeError")
                              : cleaned_item \in {Loads(item.s)} })
            ELSE IF item.t = "dict" THEN appended(item)
            ELSE rest
         : item \in {Head(items)}, rest \in {CleanedOutcome(Tail(items))} })
CleanedList(items) == CleanedOutcome(items).v

\* line 134: what the outer handler makes of an exception of the body
OuterExcept(exc) == IF OuterHandles(exc) THEN Returns(JList(<<>>)) ELSE Raises(exc)

\* safe_json_parse (lines 103-135): the outcome of a call
SafeJsonParseOutcome(json_str) ==
    IF json_str.t # "str" THEN Returns(JList(<<>>))
    ELSE Value({
         IF ~parsed_outer.ok THEN OuterExcept("JSONDecodeError")
         ELSE IF parsed_outer.v.t = "list"
              THEN Value({ IF cleaned.exc = "none" THEN Returns(JList(cleaned.v))
                           ELSE OuterExcept(cleaned.exc)
                           : cleaned \in {CleanedOutcome(parsed_outer.v.items)} })
         ELSE Returns(parsed_outer.v)
         : parsed_outer \in {Loads(json_str.s)} })

\* the exception that leaves safe_json_parse, "none" when it returns
SafeJsonParseError(json_str) == SafeJsonParseOutcome(json_str).exc
\* the value safe_json_parse returns
safe_json_parse(json_str) == SafeJsonParseOutcome(json_str).v

\* `for s in data`: a list gives its items, a dict its keys, a str its
\* characters; any other value is not iterable (TypeError).
IsIterable(data) == data.t \in {"list", "dict", "str"}
Iterate(data) ==
    CASE data.t = "list" -> data.items
      [] data.t = "dict" -> [i \in 1..Len(data.pairs) |-> JStr(data.pairs[i].k)]
      [] data.t = "str" -> [i \in 1..Len(data.s) |-> JStr(<<data.s[i]>>)]
      [] OTHER -> <<>>

\* int(x): an int, a bool, or a str that is a number; anything else raises.
IntOk(v) ==
    \/ v.t \in {"int", "bool"}
    \/ v.t = "str" /\ Len(Strip(v.s)) = 1 /\ IsDigit(Strip(v.s)[1])
IntOf(v) ==
    CASE v.t = "int" -> v.n
      [] v.t = "bool" -> IF v.b THEN 1 ELSE 0
      [] OTHER -> DigitValue(Strip(v.s)[1])

RECURSIVE MinOf(_), MaxOf(_)
MinOf(seq) ==
    IF Len(seq) = 1 THEN seq[1]
    ELSE LET m == MinOf(Tail(seq)) IN IF seq[1] <= m THEN seq[1] ELSE m
MaxOf(seq) ==
    IF Len(seq) = 1 THEN seq[1]
    ELSE LET m == MaxOf(Tail(seq)) IN IF seq[1] >= m THEN seq[1] ELSE m

\* Faulty variant: the highest closing score is taken.
ConsensusScore_Max(scores) == IF scores # <<>> THEN MaxOf(scores) ELSE 0
\* line 210: min(closing_scores) if closing_scores else 0
ConsensusScore(scores) == IF scores # <<>> THEN MinOf(scores) ELSE 0

\* lines 200-208: the statements that are dicts, and those with a
\* proposed_score
RECURSIVE SelectDicts(_), SelectScored(_)
SelectDicts(items) ==
    IF items = <<>> THEN <<>>
    ELSE IF Head(items).t = "dict" THEN <<Head(items)>> \o SelectDicts(Tail(items))
    ELSE SelectDicts(Tail(items))
SelectScored(items) ==
    IF items = <<>> THEN <<>>
    ELSE IF Head(items).t = "dict" /\ HasKey(Head(items), <<"proposed_score">>)
         THEN <<Head(items)>> \o SelectScored(Tail(items))
         ELSE SelectScored(Tail(items))
FormattedStatement(st) ==
    [agent |-> GetKey(st, <<"agent_name">>, JStr(<<"Unknown">>)),
     statement |-> GetKey(st, <<"argument">>, JStr(<<>>)),
     score |-> GetKey(st, <<"proposed_score">>, JNull)]

\* lines 198-208: the loop over closing_statements_data: the exception it
\* raises ("none" when it ends), the list closing_scores and the list
\* formatted_closing
ClosingLoopError(data) ==
    IF ~IsIterable(data) THEN "TypeError"
    ELSE LET scored == SelectScored(Iterate(data))
         IN IF \A i \in 1..Len(scored) : IntOk(GetKey(scored[i], <<"proposed_score">>, JNull))
            THEN "none"
            ELSE LET bad == {i \in 1..Len(scored) :
                                ~IntOk(GetKey(scored[i], <<"proposed_score">>, JNull))}
                     first == CHOOSE i \in bad : \A j \in bad : i <= j
                 IN IF GetKey(scored[first], <<"proposed_score">>, JNull).t = "str"
                    THEN "ValueError" ELSE "TypeError"
ClosingScoresOf(data) ==
    Value({ [i \in 1..Len(scored) |-> IntOf(GetKey(scored[i], <<"proposed_score">>, JNull))]
            : scored \in {SelectScored(Iterate(data))} })
FormattedClosingOf(data) ==
    Value({ [i \in 1..Len(dicts) |-> FormattedStatement(dicts[i])]
            : dicts \in {SelectDicts(Iterate(data))} })

\* The closing-statement objects of a debate row.
ClosingScores == {5, 6, 7}
Statement(argument, score) ==
    JDict(<<Field("agent_name", JStr(<<"GPT5_LINGUIST">>)),
            Field("argument", JStr(argument)), Field("proposed_score", score)>>)
ClosingObjects ==
    { Statement(<<"sound">>, JInt(n)) : n \in ClosingScores }
    \cup { Statement(<<"As", "said", ":", " ", "q0", "NWT", "q0">>, JInt(5)),
           Statement(<<"sound">>, JNull),
           JDict(<<Field("agent_name", JStr(<<"GEMINI_LINGUIST">>)),
                   Field("argument", JStr(<<"sound">>))>>),
           JDict(<<Field("intervene", JBool(FALSE)), Field("violators", JList(<<>>)),
                   Field("feedback", JStr(<<>>))>>) }

\* The closing_statements column: the JSON array of the objects (direct),
\* the JSON array of their JSON strings (double), or what
\* run_single_verse_debate writes (debate.py 162-174): the JSON array of the
\* message contents, the closing instruction first.
RECURSIVE EncodedStrings(_)
EncodedStrings(objs) ==
    IF objs = <<>> THEN <<>>
    ELSE <<JStr(Dumps(Head(objs)))>> \o EncodedStrings(Tail(objs))
EncodeColumn(objs, style) ==
    CASE style = "direct" -> JStr(Dumps(JList(objs)))
      [] style = "double" -> JStr(Dumps(JList(EncodedStrings(objs))))
      [] style = "debate" ->
            JStr(Dumps(JList(<<JStr(closing_instruction)>> \o EncodedStrings(objs))))
OtherStyle(style) == IF style = "direct" THEN "double" ELSE "direct"

CzBegin ==
    /\ cz_pc = "start"
    /\ cz_objs \in UNION {[1..n -> ClosingObjects] : n \in 0..MaxStatements}
    /\ cz_style \in {"direct", "double", "debate"}
    /\ cz_column = JNull /\ cz_data = JNull
    /\ cz_twin = [done |-> FALSE, v |-> JNull]
    /\ closing_scores = <<>> /\ formatted_closing = <<>> /\ final_score = 0

\* The debate table is written with the column encoded.
CzEncode ==
    /\ cz_pc = "start"
    /\ cz_column' = EncodeColumn(cz_objs, cz_style)
    /\ cz_pc' = "encoded"
    /\ UNCHANGED <<cz_objs, cz_style, cz_data, cz_twin, closing_scores,
                   formatted_closing, final_score>>

\* line 195: closing_statements_data = safe_json_parse(row.get(...))
CzParse ==
    /\ cz_pc = "encoded"
    /\ \E parsed \in {SafeJsonParseOutcome(cz_column)} :
          IF parsed.exc = "none"
          THEN cz_data' = parsed.v /\ cz_pc' = "parsed"
          ELSE cz_data' = cz_data /\ cz_pc' = "raised"
    /\ UNCHANGED <<cz_objs, cz_style, cz_column, cz_twin, closing_scores,
                   formatted_closing, final_score>>

\* safe_json_parse applied to the same objects in the other encoding
CzParseTwin ==
    /\ cz_pc = "parsed" /\ ~cz_twin.done
    /\ cz_style \in {"direct", "double"}
    /\ cz_twin' = [done |-> TRUE,
                   v |-> safe_json_parse(EncodeColumn(cz_objs, OtherStyle(cz_style)))]
    /\ UNCHANGED <<cz_pc, cz_objs, cz_style, cz_column, cz_data, closing_scores,
                   formatted_closing, final_score>>

\* lines 198-210: the closing scores, the formatted statements and the
\* consensus score; iterating a value that is not iterable or int() of a
\* value that is no number raises.
CzScore ==
    /\ cz_pc = "parsed"
    /\ IF ClosingLoopError(cz_data) = "none"
       THEN /\ closing_scores' = ClosingScoresOf(cz_data)
            /\ formatted_closing' = FormattedClosingOf(cz_data)
            /\ final_score' = ConsensusScore(closing_scores')
            /\ cz_pc' = "done"
       ELSE /\ cz_pc' = "raised"
            /\ UNCHANGED <<closing_scores, formatted_closing, final_score>>
    /\ UNCHANGED <<cz_objs, cz_style, cz_column, cz_data, cz_twin>>

InitCoalesce == RvIdle /\ C2Idle /\ DbIdle /\ CzBegin /\ SpIdle /\ RpIdle /\ MnIdle
NextCoalesce ==
    \/ CzEncode /\ UNCHANGED <<rv_vars, c2_vars, db_vars, sp_vars, rp_vars, mn_vars>>
    \/ CzParse /\ UNCHANGED <<rv_vars, c2_vars, db_vars, sp_vars, rp_vars, mn_vars>>
    \/ CzParseTwin /\ UNCHANGED <<rv_vars, c2_vars, db_vars, sp_vars, rp_vars, mn_vars>>
    \/ CzScore /\ UNCHANGED <<rv_vars, c2_vars, db_vars, sp_vars, rp_vars, mn_vars>>
SpecCoalesce == InitCoalesce /\ [][NextCoalesce]_vars

\* the proposed_score values carried by the parsed closing statements
CzCarried ==
    {i \in 1..Len(Iterate(cz_data)) :
        /\ Iterate(cz_data)[i].t = "dict"
        /\ HasKey(Iterate(cz_data)[i], <<"proposed_score">>)}
CzScoreAt(i) == IntOf(GetKey(Iterate(cz_data)[i], <<"proposed_score">>, JNull))

\* C9: the consensus score of the debate entry is the minimum of the
\* proposed_score values of the parsed closing statements that carry one,
\* and 0 when none carries one.
C9_ConsensusScoreIsMinimum ==
    cz_pc = "done" =>
        IF CzCarried = {} THEN final_score = 0
        ELSE /\ \E i \in CzCarried : final_score = CzScoreAt(i)
             /\ \A i \in CzCarried : final_score <= CzScoreAt(i)
C9_Witness ==
    /\ cz_pc = "done"
    /\ closing_scores = <<7, 5, 6>>
    /\ final_score = 5
    /\ cz_style = "debate"

\* C10: safe_json_parse returns the same objects in the same order whether
\* the column is the directly-encoded array of the objects or the array of
\* their JSON-encoded strings.
C10_EncodingStyleDoesNotAffectParse ==
    (cz_pc = "parsed" /\ cz_twin.done) =>
        /\ cz_data = cz_twin.v
        /\ cz_data = JList(cz_objs)

(***************************************************************************)
(* report/coalesce.py: safe_json_parse on any value of a debate-table      *)
(* column, and the entries coalesce_csvs makes of the result               *)
(***************************************************************************)
MaxElements == 2     \* elements of the array a column encodes

Moderation(intervene) ==
    JDict(<<Field("intervene", JBool(intervene)), Field("violators", JList(<<>>)),
            Field("feedback", JStr(<<>>))>>)

\* A turn with the fields of a linguist and the intervene field of a
\* moderator, and a turn with neither.
ModeratedStatement ==
    JDict(<<Field("agent_name", JStr(<<"GEMINI_LINGUIST">>)),
            Field("argument", JStr(<<"sound">>)), Field("proposed_score", JInt(8)),
            Field("intervene", JBool(TRUE))>>)

\* The elements of the JSON array of a column: message contents
\* (debate.py 151-165: the closing instruction, JSON-encoded replies, a
\* reply that is no JSON, a blank reply) and elements of other JSON types.
ColumnElements ==
    { JStr(closing_instruction),
      JStr(Dumps(Statement(<<"NWT">>, JInt(5)))),
      JStr(Dumps(Statement(<<"sound">>, JInt(6)))),
      Statement(<<"sound">>, JInt(7)),
      Moderation(FALSE),
      ModeratedStatement,
      JDict(<<Field("score", JInt(5))>>),
      JInt(5),
      JStr(<<"sound">>),
      JStr(<<" ">>),
      JStr(<<"5">>) }

\* Values of a column that are not the JSON text of an array: an empty
\* cell (NaN), a number, a text that is no JSON, a truncated text, and the
\* JSON texts of a number, of null and of an object.
OtherColumnValues ==
    { JNaN, JInt(3), JStr(<<"sound">>), JStr(<<"[", "{">>),
      JStr(<<"5">>), JStr(<<"null">>), JStr(Dumps(Statement(<<"sound">>, JInt(6)))) }

SpBegin ==
    /\ sp_pc = "start"
    /\ sp_name \in {"closing_statements", "debate"}
    /\ \/ /\ sp_elems \in UNION {[1..n -> ColumnElements] : n \in 0..MaxElements}
          /\ sp_column = JStr(Dumps(JList(sp_elems)))
       \/ /\ sp_elems = <<>>
          /\ sp_column \in OtherColumnValues
    /\ sp_parsed = JNull /\ sp_error = "none"
    /\ sp_closing = <<>> /\ transcript = <<>>

\* lines 195, 213: safe_json_parse(row.get(<column>, '[]'))
SpParse ==
    /\ sp_pc = "start"
    /\ \E parsed \in {SafeJsonParseOutcome(sp_column)} :
          IF parsed.exc = "none"
          THEN /\ sp_parsed' = parsed.v
               /\ sp_pc' = "parsed"
               /\ UNCHANGED sp_error
          ELSE /\ sp_error' = parsed.exc
               /\ sp_pc' = "parse_raised"
               /\ UNCHANGED sp_parsed
    /\ UNCHANGED <<sp_name, sp_elems, sp_column, sp_closing, transcript>>

\* lines 198-208: the closing statements of the debate entry
SpClosing ==
    /\ sp_pc = "parsed" /\ sp_name = "closing_statements"
    /\ IF ClosingLoopError(sp_parsed) = "none"
       THEN /\ sp_closing' = FormattedClosingOf(sp_parsed)
            /\ sp_pc' = "done"
            /\ UNCHANGED sp_error
       ELSE /\ sp_error' = ClosingLoopError(sp_parsed)
            /\ sp_pc' = "raised"
            /\ UNCHANGED sp_closing
    /\ UNCHANGED <<sp_name, sp_elems, sp_column, sp_parsed, transcript>>

\* lines 222-227 and 233-239: the transcript entry of a turn
LinguistEntry(turn) ==
    JDict(<<Field("role", JStr(<<"linguist">>)),
            Field("agent", GetKey(turn, <<"agent_name">>, JNull)),
            Field("argument", GetKey(turn, <<"argument">>, JNull)),
            Field("proposed_score", GetKey(turn, <<"proposed_score">>, JNull))>>)
ModeratorEntry(turn) ==
    JDict(<<Field("role", JStr(<<"moderator">>)),
            Field("agent", JStr(<<"Moderator">>)),
            Field("violators", GetKey(turn, <<"violators">>, JList(<<JStr(<<>>)>>))),
            Field("intervened", GetKey(turn, <<"intervene">>, JNull)),
            Field("feedback", GetKey(turn, <<"feedback">>, JStr(<<>>)))>>)

\* Faulty variant: the intervene field is looked for first.
TurnRole_InterveneFirst(turn) ==
    IF HasKey(turn, <<"intervene">>) THEN "moderator"
    ELSE IF HasKey(turn, <<"agent_name">>) THEN "linguist"
    ELSE "none"
\* lines 221, 229: if 'agent_name' in turn ... elif 'intervene' in turn
TurnRole(turn) ==
    IF HasKey(turn, <<"agent_name">>) THEN "linguist"
    ELSE IF HasKey(turn, <<"intervene">>) THEN "moderator"
    ELSE "none"

\* lines 216-239: the entries of the turns, in order
RECURSIVE TranscriptOf(_)
TranscriptOf(turns) ==
    IF turns = <<>> THEN <<>>
    ELSE LET turn == Head(turns)
             rest == TranscriptOf(Tail(turns))
         IN IF turn.t # "dict" THEN rest
            ELSE IF TurnRole(turn) = "linguist" THEN <<LinguistEntry(turn)>> \o rest
            ELSE IF TurnRole(turn) = "moderator" THEN <<ModeratorEntry(turn)>> \o rest
            ELSE rest

\* lines 213-239: the transcript of the debate entry; `for turn in` a value
\* that is not iterable raises TypeError
SpTranscript ==
    /\ sp_pc = "parsed" /\ sp_name = "debate"
    /\ IF IsIterable(sp_parsed)
       THEN /\ transcript' = TranscriptOf(Iterate(sp_parsed))
            /\ sp_pc' = "done"
            /\ UNCHANGED sp_error
       ELSE /\ sp_error' = "TypeError"
            /\ sp_pc' = "raised"
            /\ UNCHANGED transcript
    /\ UNCHANGED <<sp_name, sp_elems, sp_column, sp_parsed, sp_closing>>

InitParse == RvIdle /\ C2Idle /\ DbIdle /\ CzIdle /\ SpBegin /\ RpIdle /\ MnIdle
NextParse ==
    \/ SpParse /\ UNCHANGED <<rv_vars, c2_vars, db_vars, cz_vars, rp_vars, mn_vars>>
    \/ SpClosing /\ UNCHANGED <<rv_vars, c2_vars, db_vars, cz_vars, rp_vars, mn_vars>>
    \/ SpTranscript /\ UNCHANGED <<rv_vars, c2_vars, db_vars, cz_vars, rp_vars, mn_vars>>
SpecParse == InitParse /\ [][NextParse]_vars

\* the column is the JSON text of an array of elements
SpIsArray == sp_column = JStr(Dumps(JList(sp_elems)))
\* an instructional placeholder: a string element containing "Now we
\* transition"
IsPlaceholder(elem) == elem.t = "str" /\ InText("NWT", elem.s)
SpPlaceholders == {i \in 1..Len(sp_elems) : IsPlaceholder(sp_elems[i])}
RECURSIVE WithoutPlaceholders(_)
WithoutPlaceholders(elems) ==
    IF elems = <<>> THEN <<>>
    ELSE IF IsPlaceholder(Head(elems)) THEN WithoutPlaceholders(Tail(elems))
    ELSE <<Head(elems)>> \o WithoutPlaceholders(Tail(elems))

\* C11: every string element of a column's array that contains "Now we
\* transition" is dropped by safe_json_parse: the result is the result for
\* the array without these elements, it has at most one item for each
\* other element, and so have the debate_transcript and the
\* closing_statements made of it.
C11_PlaceholdersAreDropped ==
    (SpIsArray /\ sp_pc \in {"parsed", "done"}) =>
        /\ sp_parsed = safe_json_parse(JStr(Dumps(JList(WithoutPlaceholders(sp_elems)))))
        /\ sp_parsed.t = "list"
        /\ Len(sp_parsed.items) <= Len(sp_elems) - Cardinality(SpPlaceholders)
        /\ Len(transcript) <= Len(sp_elems) - Cardinality(SpPlaceholders)
        /\ Len(sp_closing) <= Len(sp_elems) - Cardinality(SpPlaceholders)
C11_Witness ==
    /\ sp_pc = "done" /\ sp_name = "closing_statements"
    /\ sp_elems = <<JStr(closing_instruction),
                    JStr(Dumps(Statement(<<"sound">>, JInt(6))))>>
    /\ sp_closing = <<FormattedStatement(Statement(<<"sound">>, JInt(6)))>>

\* the elements of the array that are objects, and those that are strings
\* json.loads accepts
SpObjects == {i \in 1..Len(sp_elems) : sp_elems[i].t = "dict"}
SpJsonStrings == {i \in 1..Len(sp_elems) : sp_elems[i].t = "str" /\ Loads(sp_elems[i].s).ok}

\* C12: safe_json_parse raises for no input; for an input that is not a
\* string or is not the text of a JSON value it returns the empty list; and
\* for an array every item of the result is an element that is an object
\* or the parse of an element that is a string of JSON, so that any other
\* element is omitted, while every element that is an object is kept.
C12_SafeJsonParseNeverRaises ==
    /\ sp_pc # "parse_raised"
    /\ sp_pc \in {"parsed", "done"} =>
          /\ (sp_column.t # "str" \/ ~Loads(sp_column.s).ok) => sp_parsed = JList(<<>>)
          /\ SpIsArray =>
                /\ sp_parsed.t = "list"
                /\ \A k \in 1..Len(sp_parsed.items) :
                      \/ \E i \in SpObjects : sp_parsed.items[k] = sp_elems[i]
                      \/ \E i \in SpJsonStrings : sp_parsed.items[k] = Loads(sp_elems[i].s).v
                /\ \A i \in SpObjects :
                      \E k \in 1..Len(sp_parsed.items) : sp_parsed.items[k] = sp_elems[i]
                /\ Len(sp_parsed.items) <= Cardinality(SpObjects \cup SpJsonStrings)
C12_Witness ==
    /\ sp_pc = "parsed"
    /\ sp_elems = <<JStr(<<"sound">>), Statement(<<"sound">>, JInt(7))>>
    /\ sp_parsed = JList(<<Statement(<<"sound">>, JInt(7))>>)

\* the turns of the parsed debate column that have the shape of a linguist
\* turn or of a moderator turn
SpIsLinguistTurn(turn) == turn.t = "dict" /\ HasKey(turn, <<"agent_name">>)
SpIsModeratorTurn(turn) ==
    turn.t = "dict" /\ ~HasKey(turn, <<"agent_name">>) /\ HasKey(turn, <<"intervene">>)
SpShapedTurns ==
    SelectSeq(Iterate(sp_parsed),
              LAMBDA turn : SpIsLinguistTurn(turn) \/ SpIsModeratorTurn(turn))

\* C27: the transcript has one entry for each parsed turn that has an
\* agent_name field or an intervene field, in the order of the turns, and
\* none for any other turn: the entry of a turn with agent_name is a
\* linguist entry with its agent, argument and proposed_score (also when
\* the turn has an intervene field), the entry of a turn without
\* agent_name and with intervene is a moderator entry.
C27_TurnsClassifiedByShape ==
    (sp_pc = "done" /\ sp_name = "debate") =>
        /\ Len(transcript) = Len(SpShapedTurns)
        /\ \A k \in 1..Len(SpShapedTurns) :
              IF SpIsLinguistTurn(SpShapedTurns[k])
              THEN /\ GetKey(transcript[k], <<"role">>, JNull) = JStr(<<"linguist">>)
                   /\ GetKey(transcript[k], <<"agent">>, JNull)
                          = GetKey(SpShapedTurns[k], <<"agent_name">>, JNull)
                   /\ GetKey(transcript[k], <<"argument">>, JNull)
                          = GetKey(SpShapedTurns[k], <<"argument">>, JNull)
                   /\ GetKey(transcript[k], <<"proposed_score">>, JNull)
                          = GetKey(SpShapedTurns[k], <<"proposed_score">>, JNull)
              ELSE /\ GetKey(transcript[k], <<"role">>, JNull) = JStr(<<"moderator">>)
                   /\ GetKey(transcript[k], <<"intervened">>, JNull)
                          = GetKey(SpShapedTurns[k], <<"intervene">>, JNull)
C27_Witness ==
    /\ sp_pc = "done" /\ sp_name = "debate"
    /\ sp_elems = <<JDict(<<Field("score", JInt(5))>>), ModeratedStatement>>
    /\ Len(transcript) = 1
    /\ GetKey(transcript[1], <<"role">>, JNull) = JStr(<<"linguist">>)

\* C35: whatever the value of the debate or closing_statements column of a
\* debate row (an empty cell, a text that is no JSON, the JSON text of a
\* value that is no array, an array with elements that do not parse or
\* have no score), the making of the debate entry raises nothing, and when
\* the column holds no object at all the lists of the entry are empty.
C35_AnyColumnValueGivesAnEntry ==
    /\ sp_pc \notin {"parse_raised", "raised"}
    /\ (sp_pc = "done" /\ ~SpIsArray) =>
          /\ sp_closing = <<>>
          /\ transcript = <<>>

(***************************************************************************)
(* report/coalesce.py: coalesce_csvs                                       *)
(***************************************************************************)
MaxIndividualRows == 2   \* rows of the individual table
MaxDebateRows == 2       \* rows of the debate table

\* verse, greek_text and face_annotation of a row: a segment of verse 1,
\* the same segment with surrounding whitespace, another segment of verse 1
\* whose annotation cell is empty, and a segment of verse 2
RowKeys ==
    { [verse |-> 1, greek |-> JStr(<<"X">>), face |-> JStr(<<"Mitigate">>)],
      [verse |-> 1, greek |-> JStr(<<" ", "X", " ">>), face |-> JStr(<<" ", "Mitigate">>)],
      [verse |-> 1, greek |-> JStr(<<"Y">>), face |-> JNaN],
      [verse |-> 2, greek |-> JStr(<<"X">>), face |-> JStr(<<"Mitigate">>)] }

\* Row i of the individual table (main.py 116-127), its columns named as
\* line 145 renames them.
IndividualRow(i, key) ==
    [Chapter |-> 1, Verse |-> key.verse,
     Greek_text |-> key.greek, Face_annotation |-> key.face,
     Notes |-> JStr(<<"note">>), Translation |-> JStr(<<"tr">>),
     Model |-> JStr(IF i % 2 = 1 THEN <<"gemini">> ELSE <<"gpt">>),
     Score |-> JInt(3 + i),
     Model_analysis |-> JStr(<<"analysis", DigitToken(i)>>)]

\* Row i of the debate table (debate.py 167-175), its columns named as
\* line 143 renames them.
DebateRow(i, key) ==
    [verse |-> key.verse, greek_text |-> key.greek, face_annotation |-> key.face,
     translation |-> JStr(<<"tr">>),
     debate |-> JStr(Dumps(JList(EncodedStrings(
                    <<Statement(<<"sound">>, JInt(4 + i)), Moderation(FALSE)>>)))),
     closing_statements |-> EncodeColumn(<<Statement(<<"sound">>, JInt(4 + i))>>, "debate")]

RpBegin ==
    /\ rp_pc = "start" /\ rp_run = 1
    /\ \E n \in 0..MaxIndividualRows : \E f \in [1..n -> RowKeys] :
          df_individual = [i \in 1..n |-> IndividualRow(i, f[i])]
    /\ \E n \in 0..MaxDebateRows : \E f \in [1..n -> RowKeys] :
          df_debate = [i \in 1..n |-> DebateRow(i, f[i])]
    /\ all_verses = <<>> /\ rp_idx = 0 /\ analysis_list = <<>>
    /\ rp_error = "none" /\ rp_output = <<>> /\ rp_first = <<>>

\* Faulty variant: the verses from the greatest to the least.
RECURSIVE Sorted_Descending(_)
Sorted_Descending(S) ==
    IF S = {} THEN <<>>
    ELSE LET m == CHOOSE x \in S : \A y \in S : x >= y
         IN <<m>> \o Sorted_Descending(S \ {m})

\* sorted(...) of a set of numbers
RECURSIVE Sorted(_)
Sorted(S) ==
    IF S = {} THEN <<>>
    ELSE LET m == CHOOSE x \in S : \A y \in S : x <= y
         IN <<m>> \o Sorted(S \ {m})

\* Faulty variant: the list is kept from one invocation to the next.
InitialAnalysisList_Kept(old) == old
\* line 156: analysis_list = []
InitialAnalysisList(old) == SubSeq(old, 1, 0)

\* line 149
chapter_num ==
    IF df_individual # <<>> THEN df_individual[1].Chapter ELSE 1

\* lines 139-156: the tables are read and the verses collected
RpLoad ==
    /\ rp_pc = "start"
    /\ all_verses' = Sorted({df_individual[i].Verse : i \in 1..Len(df_individual)}
                            \cup {df_debate[i].verse : i \in 1..Len(df_debate)})
    /\ analysis_list' = InitialAnalysisList(analysis_list)
    /\ rp_idx' = 1
    /\ rp_pc' = "loop"
    /\ UNCHANGED <<rp_run, df_individual, df_debate, rp_error, rp_output, rp_first>>

\* lines 160-161: the rows of a verse, in table order
RECURSIVE IndividualRowsOf(_, _), DebateRowsOf(_, _)
IndividualRowsOf(rows, verse_num) ==
    IF rows = <<>> THEN <<>>
    ELSE IF Head(rows).Verse = verse_num
         THEN <<Head(rows)>> \o IndividualRowsOf(Tail(rows), verse_num)
         ELSE IndividualRowsOf(Tail(rows), verse_num)
DebateRowsOf(rows, verse_num) ==
    IF rows = <<>> THEN <<>>
    ELSE IF Head(rows).verse = verse_num
         THEN <<Head(rows)>> \o DebateRowsOf(Tail(rows), verse_num)
         ELSE DebateRowsOf(Tail(rows), verse_num)

\* lines 164-177: greek, annotation, notes, translation of the verse
VerseMetadata(ind_rows, deb_rows) ==
    IF ind_rows # <<>>
    THEN [greek |-> ind_rows[1].Greek_text, annotation |-> ind_rows[1].Face_annotation,
          notes |-> ind_rows[1].Notes, translation |-> ind_rows[1].Translation]
    ELSE IF deb_rows # <<>>
    THEN [greek |-> deb_rows[1].greek_text, annotation |-> deb_rows[1].face_annotation,
          notes |-> JStr(<<>>), translation |-> deb_rows[1].translation]
    ELSE [greek |-> JStr(<<>>), annotation |-> JStr(<<>>),
          notes |-> JStr(<<>>), translation |-> JStr(<<>>)]

\* lines 183-188: the entry of an individual row
IndividualEntry(row) ==
    JDict(<<Field("type", JStr(<<"individual">>)),
            Field("model", row.Model),
            Field("score", JInt(IntOf(row.Score))),
            Field("reasoning", row.Model_analysis)>>)

FormattedDict(f) ==
    JDict(<<Field("agent", f.agent), Field("statement", f.statement),
            Field("score", f.score)>>)

\* lines 192-247: the processing of the first debate row of the verse: v is
\* the debate entry
DebateOutcome(row) ==
    Value({
      IF closing.exc # "none" THEN Raises(closing.exc)
      ELSE IF ClosingLoopError(closing.v) # "none" THEN Raises(ClosingLoopError(closing.v))
      ELSE Value({
           IF debate.exc # "none" THEN Raises(debate.exc)
           ELSE IF ~IsIterable(debate.v) THEN Raises("TypeError")
           ELSE Value({
                Returns(JDict(<<
                    Field("type", JStr(<<"debate">>)),
                    Field("score", JInt(ConsensusScore(ClosingScoresOf(closing.v)))),
                    Field("debate_transcript", JList(TranscriptOf(Iterate(debate.v)))),
                    Field("closing_statements",
                          JList([i \in 1..Len(formatted) |-> FormattedDict(formatted[i])]))>>))
                : formatted \in {FormattedClosingOf(closing.v)} })
           : debate \in {SafeJsonParseOutcome(row.debate)} })
      : closing \in {SafeJsonParseOutcome(row.closing_statements)} })
DebateEntry(row) == DebateOutcome(row).v

\* Faulty variant: the debate entry is put before the individual entries.
InnerAnalysis_DebateFirst(individual, debate) == debate \o individual
\* lines 179-247: inner_analysis: the appends of the loop over ind_rows,
\* then the append of the debate entry
InnerAnalysis(individual, debate) == individual \o debate

\* lines 164-257: the processing of one verse: v is verse_obj, whose
\* analysis holds the entries of the individual rows, then the entry of the
\* first debate row; int() of a score that is no number raises
VerseOutcome(verse_num, ind_rows, deb_rows) ==
    IF \E i \in 1..Len(ind_rows) : ~IntOk(ind_rows[i].Score) THEN Raises("ValueError")
    ELSE Value({
         IF debate.exc # "none" THEN debate
         ELSE Returns(JDict(<<
                 Field("verse", JInt(verse_num)),
                 Field("greek", meta.greek),
                 Field("translation", meta.translation),
                 Field("annotation", meta.annotation),
                 Field("notes", meta.notes),
                 Field("analysis",
                       JList(InnerAnalysis(
                           [i \in 1..Len(ind_rows) |-> IndividualEntry(ind_rows[i])],
                           debate.v)))>>))
         : meta \in {VerseMetadata(ind_rows, deb_rows)},
           debate \in {IF deb_rows = <<>> THEN Returns(<<>>)
                       ELSE Value({ IF entry.exc # "none" THEN entry
                                    ELSE Returns(<<entry.v>>)
                                    : entry \in {DebateOutcome(deb_rows[1])} })} })

\* lines 158-258: one iteration of the loop over all_verses
RpVerse ==
    /\ rp_pc = "loop" /\ rp_idx <= Len(all_verses)
    /\ \E verse_num \in {all_verses[rp_idx]} :
       \E ind_rows \in {IndividualRowsOf(df_individual, verse_num)},
          deb_rows \in {DebateRowsOf(df_debate, verse_num)} :
       \E verse_obj \in {VerseOutcome(verse_num, ind_rows, deb_rows)} :
          IF verse_obj.exc = "none"
          THEN /\ analysis_list' = Append(analysis_list, verse_obj.v)
               /\ rp_idx' = rp_idx + 1
               /\ UNCHANGED <<rp_pc, rp_error>>
          ELSE /\ rp_error' = verse_obj.exc
               /\ rp_pc' = "raised"
               /\ UNCHANGED <<analysis_list, rp_idx>>
    /\ UNCHANGED <<rp_run, df_individual, df_debate, all_verses, rp_output, rp_first>>

\* lines 261-266
final_json ==
    JDict(<<Field("book", JStr(<<"Philemon">>)),
            Field("chapter", JInt(chapter_num)),
            Field("category", JStr(<<"Pauline", " ", "Epistles">>)),
            Field("analysis", JList(analysis_list))>>)

\* json.dump(..., indent=2): "nl" is a line break; each level indents by
\* two spaces; the separators are "," and ": "
Indent(level) == [i \in 1..(2 * level) |-> " "]
RECURSIVE DumpsIndent(_, _), DumpsIndentItems(_, _), DumpsIndentPairs(_, _)
DumpsIndent(v, level) ==
    CASE v.t = "list" ->
            IF v.items = <<>> THEN <<"[", "]">>
            ELSE <<"[", "nl">> \o DumpsIndentItems(v.items, level + 1)
                 \o <<"nl">> \o Indent(level) \o <<"]">>
      [] v.t = "dict" ->
            IF v.pairs = <<>> THEN <<"{", "}">>
            ELSE <<"{", "nl">> \o DumpsIndentPairs(v.pairs, level + 1)
                 \o <<"nl">> \o Indent(level) \o <<"}">>
      [] OTHER -> Dumps(v)
DumpsIndentItems(items, level) ==
    LET one == Indent(level) \o DumpsIndent(items[1], level)
    IN IF Len(items) = 1 THEN one
       ELSE one \o <<",", "nl">> \o DumpsIndentItems(Tail(items), level)
DumpsIndentPairs(pairs, level) ==
    LET one == Indent(level) \o <<"q0">> \o Escape(pairs[1].k) \o <<"q0", ":", " ">>
               \o DumpsIndent(pairs[1].v, level)
    IN IF Len(pairs) = 1 THEN one
       ELSE one \o <<",", "nl">> \o DumpsIndentPairs(Tail(pairs), level)

\* lines 261-270: the report is written over the file at output_path
RpSave ==
    /\ rp_pc = "loop" /\ rp_idx > Len(all_verses)
    /\ rp_output' = DumpsIndent(final_json, 0)
    /\ rp_pc' = "written"
    /\ UNCHANGED <<rp_run, df_individual, df_debate, all_verses, rp_idx,
                   analysis_list, rp_error, rp_first>>

\* coalesce_csvs is called again with the same three paths: its locals are
\* those of the new call once line 156 has run, the files are as they were
\* left
RpAgain ==
    /\ rp_pc = "written" /\ rp_run = 1
    /\ rp_run' = 2
    /\ rp_first' = rp_output
    /\ rp_pc' = "start"
    /\ UNCHANGED <<df_individual, df_debate, all_verses, rp_idx, analysis_list,
                   rp_error, rp_output>>

InitReport == RvIdle /\ C2Idle /\ DbIdle /\ CzIdle /\ SpIdle /\ RpBegin /\ MnIdle
NextReport ==
    \/ RpLoad /\ UNCHANGED <<rv_vars, c2_vars, db_vars, cz_vars, sp_vars, mn_vars>>
    \/ RpVerse /\ UNCHANGED <<rv_vars, c2_vars, db_vars, cz_vars, sp_vars, mn_vars>>
    \/ RpSave /\ UNCHANGED <<rv_vars, c2_vars, db_vars, cz_vars, sp_vars, mn_vars>>
    \/ RpAgain /\ UNCHANGED <<rv_vars, c2_vars, db_vars, cz_vars, sp_vars, mn_vars>>
SpecReport == InitReport /\ [][NextReport]_vars

\* the VerseReports written, and the entries of one
RpReports == 1..Len(analysis_list)
RpEntries(r) == GetKey(analysis_list[r], <<"analysis">>, JList(<<>>)).items
RpCarries(r, entry) == \E k \in 1..Len(RpEntries(r)) : RpEntries(r)[k] = entry
\* a cell with surrounding whitespace trimmed
Trimmed(cell) == IF cell.t = "str" THEN JStr(Strip(cell.s)) ELSE cell
RpIndividual == 1..Len(df_individual)
RpDebate == 1..Len(df_debate)

\* C13: two individual rows with the same verse number whose greek_text or
\* face_annotation differ are placed in different VerseReports: no
\* VerseReport carries the entries of both.
C13_GroupedByCompositeKey ==
    rp_pc = "written" =>
        \A i, j \in RpIndividual :
            ( /\ df_individual[i].Verse = df_individual[j].Verse
              /\ \/ Trimmed(df_individual[i].Greek_text) # Trimmed(df_individual[j].Greek_text)
                 \/ Trimmed(df_individual[i].Face_annotation)
                        # Trimmed(df_individual[j].Face_annotation) )
            => ~\E r \in RpReports :
                   /\ RpCarries(r, IndividualEntry(df_individual[i]))
                   /\ RpCarries(r, IndividualEntry(df_individual[j]))

\* rows d and e of the debate table have the same verse and, after
\* trimming, the same greek_text and face_annotation
RpSameDebateKey(d, e) ==
    /\ df_debate[d].verse = df_debate[e].verse
    /\ Trimmed(df_debate[d].greek_text) = Trimmed(df_debate[e].greek_text)
    /\ Trimmed(df_debate[d].face_annotation) = Trimmed(df_debate[e].face_annotation)

\* C14: an individual row and a debate row with the same verse whose
\* greek_text and face_annotation are equal after trimming are joined (the
\* debate row being the only one of its key): exactly one VerseReport
\* carries the entry of the individual row, and it carries the entry of the
\* debate row.
C14_TrimmedKeysAreJoined ==
    rp_pc = "written" =>
        \A i \in RpIndividual, d \in RpDebate :
            ( /\ df_individual[i].Verse = df_debate[d].verse
              /\ Trimmed(df_individual[i].Greek_text) = Trimmed(df_debate[d].greek_text)
              /\ Trimmed(df_individual[i].Face_annotation)
                     = Trimmed(df_debate[d].face_annotation)
              /\ \A e \in RpDebate : RpSameDebateKey(d, e) => e = d )
            => /\ Cardinality({r \in RpReports :
                                  RpCarries(r, IndividualEntry(df_individual[i]))}) = 1
               /\ \E r \in RpReports :
                     /\ RpCarries(r, IndividualEntry(df_individual[i]))
                     /\ RpCarries(r, DebateEntry(df_debate[d]))

C16_AnnotationNeverNull ==
    \A r \in RpReports :
        LET verse_num == GetKey(analysis_list[r], <<"verse">>, JNull).n
            source == VerseMetadata(IndividualRowsOf(df_individual, verse_num),
                                    DebateRowsOf(df_debate, verse_num))
            annotation == GetKey(analysis_list[r], <<"annotation">>, JNull)
        IN /\ annotation.t = "str"
           /\ source.annotation.t # "str" => annotation = JStr(<<"Uncategorized">>)

\* the individual rows of a verse, as indices of the table in its order
RpRowsOfVerse(verse_num) ==
    {i \in RpIndividual : df_individual[i].Verse = verse_num}
RpVerseOf(r) == GetKey(analysis_list[r], <<"verse">>, JNull).n
RpTypeOf(entry) == GetKey(entry, <<"type">>, JNull)
RpDebateEntries(r) ==
    {k \in 1..Len(RpEntries(r)) : RpTypeOf(RpEntries(r)[k]) = JStr(<<"debate">>)}
\* row positions in table order: f is increasing and onto the rows
RpInRowOrder(f, rows) ==
    /\ {f[k] : k \in DOMAIN f} = rows
    /\ \A k, l \in DOMAIN f : k < l => f[k] < f[l]

\* C28: the analysis list of every VerseReport holds one individual entry
\* for each individual row of its verse, in the order of the rows, then at
\* most one debate entry, which is the last element when there is one.
C28_IndividualEntriesThenDebate ==
    \A r \in RpReports :
        \E n \in {Cardinality(RpRowsOfVerse(RpVerseOf(r)))} :
            /\ Len(RpEntries(r)) \in {n, n + 1}
            /\ \E f \in [1..n -> RpIndividual] :
                  /\ RpInRowOrder(f, RpRowsOfVerse(RpVerseOf(r)))
                  /\ \A k \in 1..n :
                        /\ RpTypeOf(RpEntries(r)[k]) = JStr(<<"individual">>)
                        /\ GetKey(RpEntries(r)[k], <<"reasoning">>, JNull)
                               = df_individual[f[k]].Model_analysis
                        /\ GetKey(RpEntries(r)[k], <<"model">>, JNull)
                               = df_individual[f[k]].Model
            /\ Cardinality(RpDebateEntries(r)) <= 1
            /\ RpDebateEntries(r) \subseteq {Len(RpEntries(r))}
            /\ Len(RpEntries(r)) = n + 1 => RpDebateEntries(r) = {n + 1}
C28_Witness ==
    /\ rp_pc = "written"
    /\ Len(analysis_list) = 1
    /\ Len(RpEntries(1)) = 3
    /\ RpDebateEntries(1) = {3}

\* individual row i and debate row d have the same verse and, after
\* trimming, the same greek_text and face_annotation
RpSameKey(i, d) ==
    /\ df_individual[i].Verse = df_debate[d].verse
    /\ Trimmed(df_individual[i].Greek_text) = Trimmed(df_debate[d].greek_text)
    /\ Trimmed(df_individual[i].Face_annotation) = Trimmed(df_debate[d].face_annotation)

\* C29: for a key that has individual rows and no debate row, coalesce_csvs
\* does not raise and writes a VerseReport that carries the entries of the
\* individual rows and no debate entry.
C29_JoinMissHasNoDebateEntry ==
    \A i \in RpIndividual :
        (\A d \in RpDebate : ~RpSameKey(i, d)) =>
            /\ rp_pc # "raised"
            /\ rp_pc = "written" =>
                  \E r \in RpReports :
                      /\ RpCarries(r, IndividualEntry(df_individual[i]))
                      /\ RpDebateEntries(r) = {}

\* C30: for a key that has debate rows and no individual row, coalesce_csvs
\* writes a VerseReport whose analysis is the one debate entry of the key,
\* whose notes is the empty string and whose translation is that of the
\* debate row.
C30_DebateOnlyKeyHasOwnReport ==
    rp_pc = "written" =>
        \A d \in RpDebate :
            ( /\ \A i \in RpIndividual : ~RpSameKey(i, d)
              /\ \A e \in RpDebate : RpSameDebateKey(d, e) => e = d )
            => \E r \in RpReports :
                  /\ RpEntries(r) = <<DebateEntry(df_debate[d])>>
                  /\ GetKey(analysis_list[r], <<"notes">>, JNull) = JStr(<<>>)
                  /\ GetKey(analysis_list[r], <<"translation">>, JNull)
                         = df_debate[d].translation

\* the verse numbers of the rows of the two tables
RpInputVerses ==
    {df_individual[i].Verse : i \in RpIndividual} \cup {df_debate[d].verse : d \in RpDebate}

\* C36: the report written holds exactly one VerseReport for each verse
\* number that a row of the individual table or of the debate table has,
\* and none for any other number, and the VerseReports are in strictly
\* ascending order of their verse numbers.
C36_OneVerseReportPerVerseAscending ==
    rp_pc = "written" =>
        /\ {RpVerseOf(r) : r \in RpReports} = RpInputVerses
        /\ Len(analysis_list) = Cardinality(RpInputVerses)
        /\ \A r, q \in RpReports : r < q => RpVerseOf(r) < RpVerseOf(q)
C36_Witness ==
    /\ rp_pc = "written"
    /\ Len(df_individual) = 2 /\ df_individual[1].Verse = 2 /\ df_individual[2].Verse = 2
    /\ Len(df_debate) = 1 /\ df_debate[1].verse = 1
    /\ Len(analysis_list) = 2
    /\ RpVerseOf(1) = 1 /\ RpVerseOf(2) = 2

(***************************************************************************)
(* main.py: the translation dict built at import, and run_initial_analysis  *)
(***************************************************************************)
MaxTasks == 3    \* rows of the ground-truth table
MaxVerse == 3    \* verses a row or the corpus may name

book == "PHM"
GroundTruthRow(verse) == [Chapter |-> 1, Verse |-> verse]
\* line 58: ref = f"{book} {chapter}:{verse}"
Ref(row) == <<book, row.Chapter, row.Verse>>
\* lines 61, 99: the key (chapter, verse)
TaskKey(row) == <<row.Chapter, row.Verse>>

\* lines 82-85
linguists == <<"GEMINI_LINGUIST", "GPT5_LINGUIST">>

\* analysis.py 17-20: the parameters of LinguisticAnalysis.__init__ after
\* self, none with a default; main.py 104-107: the arguments of the call
LinguisticAnalysis_params == <<"llm_config", "linguist_agent", "critic_agent">>
LinguisticAnalysis_args == <<"linguist.get_agent()", "critic.get_agent()">>
\* a call binds its positional arguments to the parameters; it raises
\* TypeError when a parameter without a default is left without a value
CallBinds(params, args) == Len(args) = Len(params)

\* line 108: what perform_analysis_and_review may return: the last reply
\* of the linguist
Critiques == LinguistReplies(1)

\* lines 115-127: critique = json.loads(critique); the row of the pair
ReviewResult(linguist, row, critique) ==
    [Agent_Name |-> linguist, Chapter |-> row.Chapter, Verse |-> row.Verse,
     Score |-> GetKey(critique, <<"score">>, JNull),
     Model_Analysis |-> GetKey(critique, <<"reasoning">>, JNull)]
ResultOutcome(linguist, row, text) ==
    Value({ IF ~critique.ok THEN Raises("JSONDecodeError")
            ELSE IF critique.v.t # "dict" THEN Raises("TypeError")
            ELSE IF ~HasKey(critique.v, <<"score">>) \/ ~HasKey(critique.v, <<"reasoning">>)
                 THEN Raises("KeyError")
            ELSE Returns(ReviewResult(linguist, row, critique.v))
            : critique \in {Loads(text)} })

\* lines 104-127: one pass of the loop over the linguists
PairOutcomes(linguist, row) ==
    IF ~CallBinds(LinguisticAnalysis_params, LinguisticAnalysis_args)
    THEN {Raises("TypeError")}
    ELSE {ResultOutcome(linguist, row, text) : text \in Critiques}

MnBegin ==
    /\ mn_pc = "import"
    /\ df \in UNION {[1..n -> {GroundTruthRow(v) : v \in 1..MaxVerse}] : n \in 0..MaxTasks}
    /\ verses \in SUBSET {Ref(GroundTruthRow(v)) : v \in 1..MaxVerse}
    /\ NON_ENGLISH_TRANSLATION_DICT = {} /\ mn_row = 1 /\ mn_linguist = 1
    /\ mn_results = <<>> /\ mn_error = "none"

\* lines 55-61: the corpus has a text for the reference of the row
MnLookup ==
    /\ mn_pc = "import" /\ mn_row <= Len(df)
    /\ Ref(df[mn_row]) \in verses
    /\ NON_ENGLISH_TRANSLATION_DICT' =
           NON_ENGLISH_TRANSLATION_DICT \cup {TaskKey(df[mn_row])}
    /\ mn_row' = mn_row + 1
    /\ UNCHANGED <<mn_pc, df, verses, mn_linguist, mn_results, mn_error>>

\* line 59: verses[ref] raises KeyError for a reference the corpus has not;
\* nothing catches it and the module is not loaded
MnLookupMiss ==
    /\ mn_pc = "import" /\ mn_row <= Len(df)
    /\ Ref(df[mn_row]) \notin verses
    /\ mn_pc' = "import_raised"
    /\ mn_error' = "KeyError"
    /\ UNCHANGED <<df, verses, NON_ENGLISH_TRANSLATION_DICT, mn_row, mn_linguist,
                   mn_results>>

\* lines 63, 65-92, 159: the module is loaded; run_initial_analysis makes
\* the linguists and the critic and begins the loop over the rows
MnRunStart ==
    /\ mn_pc = "import" /\ mn_row > Len(df)
    /\ mn_pc' = "tasks"
    /\ mn_row' = 1
    /\ mn_linguist' = 1
    /\ mn_results' = <<>>
    /\ UNCHANGED <<df, verses, NON_ENGLISH_TRANSLATION_DICT, mn_error>>

\* lines 94-102: the next row: a key the dict has not is passed over
MnRow ==
    /\ mn_pc = "tasks" /\ mn_row <= Len(df)
    /\ IF TaskKey(df[mn_row]) \notin NON_ENGLISH_TRANSLATION_DICT
       THEN mn_row' = mn_row + 1 /\ UNCHANGED <<mn_pc, mn_linguist>>
       ELSE mn_pc' = "pairs" /\ mn_linguist' = 1 /\ UNCHANGED mn_row
    /\ UNCHANGED <<df, verses, NON_ENGLISH_TRANSLATION_DICT, mn_results, mn_error>>

\* lines 103-127: the analysis of the row by the next linguist; no
\* exception is caught
MnPair ==
    /\ mn_pc = "pairs"
    /\ \E outcome \in PairOutcomes(linguists[mn_linguist], df[mn_row]) :
          IF outcome.exc # "none"
          THEN /\ mn_pc' = "raised"
               /\ mn_error' = outcome.exc
               /\ UNCHANGED <<mn_row, mn_linguist, mn_results>>
          ELSE /\ mn_results' = Append(mn_results, outcome.v)
               /\ IF mn_linguist < Len(linguists)
                  THEN mn_linguist' = mn_linguist + 1 /\ UNCHANGED <<mn_pc, mn_row>>
                  ELSE mn_pc' = "tasks" /\ mn_row' = mn_row + 1 /\ mn_linguist' = 1
               /\ UNCHANGED mn_error
    /\ UNCHANGED <<df, verses, NON_ENGLISH_TRANSLATION_DICT>>

\* lines 129-134: the rows are exhausted, the table is written and returned
MnFinish ==
    /\ mn_pc = "tasks" /\ mn_row > Len(df)
    /\ mn_pc' = "returned"
    /\ UNCHANGED <<df, verses, NON_ENGLISH_TRANSLATION_DICT, mn_row, mn_linguist,
                   mn_results, mn_error>>

InitMain == RvIdle /\ C2Idle /\ DbIdle /\ CzIdle /\ SpIdle /\ RpIdle /\ MnBegin
NextMain ==
    \/ MnLookup /\ UNCHANGED <<rv_vars, c2_vars, db_vars, cz_vars, sp_vars, rp_vars>>
    \/ MnLookupMiss /\ UNCHANGED <<rv_vars, c2_vars, db_vars, cz_vars, sp_vars, rp_vars>>
    \/ MnRunStart /\ UNCHANGED <<rv_vars, c2_vars, db_vars, cz_vars, sp_vars, rp_vars>>
    \/ MnRow /\ UNCHANGED <<rv_vars, c2_vars, db_vars, cz_vars, sp_vars, rp_vars>>
    \/ MnPair /\ UNCHANGED <<rv_vars, c2_vars, db_vars, cz_vars, sp_vars, rp_vars>>
    \/ MnFinish /\ UNCHANGED <<rv_vars, c2_vars, db_vars, cz_vars, sp_vars, rp_vars>>
SpecMain == InitMain /\ [][NextMain]_vars

MnEnded == mn_pc \in {"returned", "raised", "import_raised"}
MnMisses == {i \in 1..Len(df) : Ref(df[i]) \notin verses}
MnResultsOf(i) ==
    {k \in 1..Len(mn_results) : mn_results[k].Verse = df[i].Verse}

\* C18: a ground-truth row whose (chapter, verse) the corpus has no text
\* for is skipped: when the program has ended, there is no ReviewResult for
\* it and the loop over the rows has gone through all the rows.
C18_LookupMissIsSkipped ==
    (MnEnded /\ MnMisses # {}) =>
        /\ \A i \in MnMisses : MnResultsOf(i) = {}
        /\ mn_pc = "returned"

C32_ResultsHoldOneRowPerPair ==
    (mn_pc \in {"returned", "raised"} /\ Len(df) > 0) =>
        /\ mn_pc = "returned"
        /\ Len(mn_results) = Len(linguists) * Len(df)
        /\ \A i \in 1..Len(df) : \A l \in 1..Len(linguists) :
              \E k \in {Len(linguists) * (i - 1) + l} :
                 /\ k <= Len(mn_results)
                 /\ mn_results[k].Agent_Name = linguists[l]
                 /\ mn_results[k].Chapter = df[i].Chapter
                 /\ mn_results[k].Verse = df[i].Verse

====
